---- MODULE Spec2Model ----
(***************************************************************************)
(* Model of the USP Broker core (src/src/core/usp_broker.c).               *)
(*                                                                         *)
(* Text paths are sequences of the tokens obtained by splitting the path   *)
(* at '.', so "Device.A." is <<"Device","A","">> (a trailing dot leaves an *)
(* empty last token), "Device.A" is <<"Device","A">> and "" is <<"">>.     *)
(* Schema nodes are keyed by the tokens of their schema path without the   *)
(* trailing empty token, instance numbers being replaced by "{i}".         *)
(* Message ids are pairs <<tag, n>>; the NULL message id is <<>>.          *)
(* Every handler of the Broker is one action: the Broker runs a single     *)
(* threaded event loop, and the blocking request/response exchanges made   *)
(* inside a handler are inputs of the action (the Service's answer).       *)
(***************************************************************************)
EXTENDS Integers, Sequences, FiniteSets, TLC

VARIABLES usp_services,   \* usp_services[] array: slot -> usp_service_t
          schema,         \* the Broker's supported data model: node key -> node
          hooks,          \* vendor hooks registered per group id
          count,          \* static counter of CalcBrokerMessageId
          id_count,       \* static counter of Broker_GroupSubscribe
          request_table,  \* the Broker's Device.LocalAgent.Request table
          subscriptions,  \* the Broker's Device.LocalAgent.Subscription table
          out,            \* messages queued by the last handler, in order
          last,           \* what the last handler did (observation only)
          aborted         \* TRUE once a USP_ASSERT has failed

vars == <<usp_services, schema, hooks, count, id_count, request_table, subscriptions,
         out, last, aborted>>

-----------------------------------------------------------------------------
(* Bounds of the model *)

MAX_USP_SERVICES == 2
MAX_VENDOR_PARAM_GROUPS == 2
MaxCount == 8
MaxRegCount == 2
MaxIdCount == 2
MaxRequests == 2
MaxSubs == 2
MaxInstance == 3

Slots == 1..MAX_USP_SERVICES
GroupIds == 0..(MAX_VENDOR_PARAM_GROUPS - 1)

INVALID == 0 - 1
NON_GROUPED == 0 - 1

-----------------------------------------------------------------------------
(* MTP connections *)

MtpNone == [protocol |-> "None", path_type |-> "Invalid"]
MtpUdsAgent == [protocol |-> "UDS", path_type |-> "BrokersAgent"]
MtpUdsController == [protocol |-> "UDS", path_type |-> "BrokersController"]
MtpWs == [protocol |-> "WebSocket", path_type |-> "Invalid"]

\* mtp_conn_t.is_reply_to_specified: set by DM_EXEC_CopyMTPConnection from a
\* live connection, cleared by DM_EXEC_FreeMTPConnection
is_reply_to_specified(mtp) == mtp.protocol # "None"

-----------------------------------------------------------------------------
(* Text paths *)

NumericTokens == {"1", "2"}
AlphaNumericTokens == {"Device", "A", "B", "C", "X", "Secret", "P", "Dev",
                       "USPServices", "USPService", "EndpointID",
                       "USPServiceNumberOfEntries", ""} \cup NumericTokens

NoMsgId == <<>>

RECURSIVE NormTokens(_)
\* names of the schema nodes on a text path: instance numbers, wildcards and
\* "{i}" belong to the node before them, the empty token left by a trailing
\* dot is dropped
NormTokens(t) ==
    IF t = <<>> THEN <<>>
    ELSE LET h == Head(t)
             r == NormTokens(Tail(t))
         IN  IF h \in NumericTokens \cup {"", "*", "{i}"} THEN r ELSE <<h>> \o r

IsPrefix(p, q) == Len(p) <= Len(q) /\ SubSeq(q, 1, Len(p)) = p

ValidateUspServicePath(path) ==
    IF ~(Len(path) >= 2 /\ path[1] = "Device") THEN "REGISTER_FAILURE"
    ELSE IF path[Len(path)] # "" THEN "REGISTER_FAILURE"
    ELSE IF \E i \in 1..Len(path) : path[i] \notin AlphaNumericTokens THEN "REGISTER_FAILURE"
    ELSE IF \E i \in 2..Len(path) : path[i] \in NumericTokens THEN "REGISTER_FAILURE"
    ELSE "OK"

-----------------------------------------------------------------------------
(* The data model store (schema) *)

Node(type, group_id) == [type |-> type, group_id |-> group_id]

\* Schema registered by USP_BROKER_Init below the root of the data model
InitSchema ==
    (<<"Device">> :> Node("Object_SingleInstance", NON_GROUPED)) @@
    (<<"Device", "USPServices">> :> Node("Object_SingleInstance", NON_GROUPED)) @@
    (<<"Device", "USPServices", "USPServiceNumberOfEntries">> :> Node("Param_NumEntries", NON_GROUPED)) @@
    (<<"Device", "USPServices", "USPService">> :> Node("Object_MultiInstance", NON_GROUPED)) @@
    (<<"Device", "USPServices", "USPService", "EndpointID">> :> Node("VendorParam_ReadOnly", NON_GROUPED))

\* DM_PRIV_GetNodeFromPath: the key of the node, or <<>> for NULL
DM_PRIV_GetNodeFromPath(sch, path) ==
    LET k == NormTokens(path) IN IF k \in DOMAIN sch THEN k ELSE <<>>

\* DATA_MODEL_GetPathProperties(...) & PP_EXISTS_IN_SCHEMA
PP_EXISTS_IN_SCHEMA(sch, path) == DM_PRIV_GetNodeFromPath(sch, path) # <<>>

Ancestors(k) == { SubSeq(k, 1, n) : n \in 1..(Len(k) - 1) }

\* DM_PRIV_AddSchemaPath: the node is created together with its missing
\* ancestors; an existing node of another type makes the call fail (NULL)
DM_PRIV_AddSchemaPath_Ok(sch, path, type) ==
    LET k == NormTokens(path) IN
    /\ k # <<>>
    /\ (k \in DOMAIN sch => sch[k].type = type)
    /\ \A a \in Ancestors(k) \cap DOMAIN sch :
          sch[a].type \in {"Object_SingleInstance", "Object_MultiInstance"}

DM_PRIV_AddSchemaPath(sch, path, type) ==
    LET k == NormTokens(path)
        missing == (Ancestors(k) \cup {k}) \ DOMAIN sch
    IN  [n \in DOMAIN sch \cup missing |->
            IF n \in DOMAIN sch THEN sch[n]
            ELSE IF n = k THEN Node(type, NON_GROUPED)
            ELSE Node("Object_SingleInstance", NON_GROUPED)]

SetGroupId(sch, k, group_id) == [sch EXCEPT ![k].group_id = group_id]
SetType(sch, k, type) == [sch EXCEPT ![k].type = type]

\* DATA_MODEL_DeRegisterPath: removes the node and its whole subtree
DATA_MODEL_DeRegisterPath(sch, path) ==
    LET k == NormTokens(path)
        keep == { n \in DOMAIN sch : ~IsPrefix(k, n) }
    IN  IF k = <<>> THEN sch ELSE [n \in keep |-> sch[n]]

\* DM_PRIV_IsChildOf(path, parent_node)
DM_PRIV_IsChildOf(path, parent) == IsPrefix(parent, NormTokens(path))

IsObject(sch, k) == sch[k].type \in {"Object_SingleInstance", "Object_MultiInstance"}
IsVendorParam(sch, k) == sch[k].type \in {"VendorParam_ReadOnly", "VendorParam_ReadWrite"}

Children(sch, k) == { n \in DOMAIN sch : Len(n) = Len(k) + 1 /\ IsPrefix(k, n) }

-----------------------------------------------------------------------------
(* The usp_services[] array *)

EmptyService ==
    [instance |-> INVALID, endpoint_id |-> "", controller_mtp |-> MtpNone,
     agent_mtp |-> MtpNone, group_id |-> 0, has_controller |-> FALSE,
     gsdm_msg_id |-> NoMsgId, registered_paths |-> <<>>,
     subs_map |-> <<>>, req_map |-> <<>>, msg_map |-> <<>>]

Min(S) == CHOOSE x \in S : \A y \in S : x <= y
Max(S) == CHOOSE x \in S : \A y \in S : x >= y

\* Slot of the matching service, or 0 for NULL
FindUspServiceByEndpoint(svcs, endpoint_id) ==
    LET m == { i \in Slots : svcs[i].instance # INVALID /\ svcs[i].endpoint_id = endpoint_id }
    IN  IF m = {} THEN 0 ELSE Min(m)

FindUspServiceByGroupId(svcs, group_id) ==
    LET m == { i \in Slots : svcs[i].instance # INVALID /\ svcs[i].group_id = group_id }
    IN  IF m = {} THEN 0 ELSE Min(m)

FindUnusedUspService(svcs) ==
    LET m == { i \in Slots : svcs[i].instance = INVALID }
    IN  IF m = {} THEN 0 ELSE Min(m)

\* An instance number that is one more than the number of Services in use
CalcNextUspServiceInstanceNumber_Count(svcs) ==
    Cardinality({ j \in Slots : svcs[j].instance # INVALID }) + 1

CalcNextUspServiceInstanceNumber(svcs) ==
    Max({0} \cup { svcs[i].instance : i \in { j \in Slots : svcs[j].instance # INVALID } }) + 1

\* DATA_MODEL_FindUnusedGroupId: lowest group id without vendor hooks
DATA_MODEL_FindUnusedGroupId(hk) ==
    LET m == { g \in GroupIds : hk[g] = "none" }
    IN  IF m = {} THEN INVALID ELSE Min(m)

\* UpdateUspServiceMRT: the service record with the connection stored
UpdateUspServiceMRT(us, mtpc) ==
    IF mtpc.protocol = "UDS"
    THEN IF mtpc.path_type = "BrokersAgent"
         THEN [us EXCEPT !.agent_mtp = mtpc]
         ELSE [us EXCEPT !.controller_mtp = mtpc]
    ELSE [us EXCEPT !.controller_mtp = mtpc, !.agent_mtp = mtpc]

\* AddUspService: [slot, svcs, hooks]; slot = 0 when no slot or no group id
AddUspService(svcs, hk, endpoint_id, mtpc) ==
    LET slot == FindUnusedUspService(svcs)
        group_id == DATA_MODEL_FindUnusedGroupId(hk)
    IN  IF slot = 0 \/ group_id = INVALID
        THEN [slot |-> 0, svcs |-> svcs, hooks |-> hk]
        ELSE [slot |-> slot,
              svcs |-> [svcs EXCEPT ![slot] =
                          UpdateUspServiceMRT(
                             [EmptyService EXCEPT
                                 !.instance = CalcNextUspServiceInstanceNumber(svcs),
                                 !.endpoint_id = endpoint_id,
                                 !.group_id = group_id], mtpc)],
              hooks |-> [hk EXCEPT ![group_id] = "dummy"]]

\* FreeUspService: group_id and has_controller keep their stale values
\* A release that leaves the entry marked as in use
FreeUspService_KeepInstance(us) == us

FreeUspService(us) ==
    [EmptyService EXCEPT !.group_id = us.group_id, !.has_controller = us.has_controller]

-----------------------------------------------------------------------------
(* Messages queued with MSG_HANDLER_QueueMessage, and the observation record *)

Msg(to, mtp, type, msg_id, err, body) ==
    [to |-> to, mtp |-> mtp, type |-> type, msg_id |-> msg_id, err |-> err, body |-> body]

ErrorResp(to, mtp, msg_id, err) == Msg(to, mtp, "ERROR", msg_id, err, <<>>)

Obs(op, endpoint, arg, ret) == [op |-> op, endpoint |-> endpoint, arg |-> arg, ret |-> ret]

\* Handlers run until a USP_ASSERT fails or USP_BROKER_Stop has shut the Broker down
Running == ~aborted /\ last.op # "Stop"

\* A message id formed without incrementing the counter
CalcBrokerMessageId_NoIncrement(cnt) == <<"BROKER", 1>>

\* CalcBrokerMessageId: the counter is pre-incremented; the id is
\* "BROKER-<count>-<time>". The counter is a 32 bit unsigned that the guards
\* keep below MaxCount, so it never wraps; the clock part is left out, as it
\* only adds to the distinctness that the counter already gives.
CalcBrokerMessageId(cnt) == <<"BROKER", cnt + 1>>

SeqToSet(s) == { s[i] : i \in 1..Len(s) }

\* STR_VECTOR_Find: index of the first equal string, or INVALID
STR_VECTOR_Find(sv, str) ==
    LET m == { i \in 1..Len(sv) : sv[i] = str }
    IN  IF m = {} THEN INVALID ELSE Min(m)

STR_VECTOR_RemoveByIndex(sv, index) ==
    SubSeq(sv, 1, index - 1) \o SubSeq(sv, index + 1, Len(sv))

-----------------------------------------------------------------------------
(* Register *)

\* RegisterUspServicePath without the two ownership checks
RegisterUspServicePath_NoOwnerCheck(svcs, sch, slot, requested_path) ==
    IF ValidateUspServicePath(requested_path) # "OK"
    THEN [err |-> ValidateUspServicePath(requested_path), svcs |-> svcs]
    ELSE [err |-> "OK",
          svcs |-> [svcs EXCEPT ![slot].registered_paths = Append(@, requested_path)]]

\* RegisterUspServicePath: [err, svcs]
RegisterUspServicePath(svcs, sch, slot, requested_path) ==
    IF \E i \in Slots : STR_VECTOR_Find(svcs[i].registered_paths, requested_path) # INVALID
    THEN [err |-> "PATH_ALREADY_REGISTERED", svcs |-> svcs]
    ELSE IF ValidateUspServicePath(requested_path) # "OK"
    THEN [err |-> ValidateUspServicePath(requested_path), svcs |-> svcs]
    ELSE IF PP_EXISTS_IN_SCHEMA(sch, requested_path)
    THEN [err |-> "PATH_ALREADY_REGISTERED", svcs |-> svcs]
    ELSE [err |-> "OK",
          svcs |-> [svcs EXCEPT ![slot].registered_paths = Append(@, requested_path)]]

\* The exit of the loop that keeps the paths accepted before the failure
RegisterFailed_KeepPaths(svcs, slot, err) ==
    [svcs |-> svcs, results |-> <<>>, err |-> err]

\* The exit of the loop of USP_BROKER_HandleRegister at a failing path when
\* allow_partial is false: the paths accepted so far are dropped
RegisterFailed(svcs, slot, err) ==
    [svcs |-> [svcs EXCEPT ![slot].registered_paths = <<>>], results |-> <<>>, err |-> err]

\* A result that reports every requested path as registered
AddRegisterResp_RegisteredPathResult_Success(results, requested_path, err_code) ==
    Append(results, [requested_path |-> requested_path, err |-> "OK"])

\* AddRegisterResp_RegisteredPathResult: one more registered_path_result at
\* the end of the RegisterResp, oper_success or oper_failure with the code
AddRegisterResp_RegisteredPathResult(results, requested_path, err_code) ==
    Append(results, [requested_path |-> requested_path, err |-> err_code])

RECURSIVE RegisterLoop(_, _, _, _, _, _)
\* The loop of USP_BROKER_HandleRegister over reg_paths:
\* [svcs, results, err]; err # "OK" when the loop was left at a failure
RegisterLoop(svcs, sch, slot, reg_paths, allow_partial, results) ==
    IF reg_paths = <<>>
    THEN [svcs |-> svcs, results |-> results, err |-> "OK"]
    ELSE LET r == RegisterUspServicePath(svcs, sch, slot, Head(reg_paths)) IN
         IF r.err # "OK" /\ ~allow_partial
         THEN RegisterFailed(r.svcs, slot, r.err)
         ELSE RegisterLoop(r.svcs, sch, slot, Tail(reg_paths), allow_partial,
                           AddRegisterResp_RegisteredPathResult(results, Head(reg_paths), r.err))

RECURSIVE AddRegisteredPathsToSchema(_, _, _)
\* The loop at the end of QueueGetSupportedDMToUspService
AddRegisteredPathsToSchema(sch, paths, group_id) ==
    IF paths = <<>> THEN sch
    ELSE LET path == Head(paths)
             sch2 == IF DM_PRIV_AddSchemaPath_Ok(sch, path, "Object_SingleInstance")
                     THEN SetGroupId(DM_PRIV_AddSchemaPath(sch, path, "Object_SingleInstance"),
                                     NormTokens(path), group_id)
                     ELSE sch
         IN  AddRegisteredPathsToSchema(sch2, Tail(paths), group_id)

\* A GetSupportedDM queued whether or not the Service is connected
QueueGetSupportedDMToUspService_Unconnected(svcs, sch, cnt, slot) ==
    LET us == svcs[slot]
        msg_id == CalcBrokerMessageId(cnt)
    IN  IF us.registered_paths = <<>>
        THEN [svcs |-> svcs, schema |-> sch, count |-> cnt, out |-> <<>>]
        ELSE [svcs |-> [svcs EXCEPT ![slot].gsdm_msg_id = msg_id],
              schema |-> AddRegisteredPathsToSchema(sch, us.registered_paths, us.group_id),
              count |-> msg_id[2],
              out |-> << Msg(us.endpoint_id, us.controller_mtp, "GET_SUPPORTED_DM",
                             msg_id, "OK", us.registered_paths) >>]

\* QueueGetSupportedDMToUspService: [svcs, schema, count, out]
QueueGetSupportedDMToUspService(svcs, sch, cnt, slot) ==
    LET us == svcs[slot]
        msg_id == CalcBrokerMessageId(cnt)
    IN  IF us.registered_paths = <<>> \/ us.controller_mtp.protocol = "None"
        THEN [svcs |-> svcs, schema |-> sch, count |-> cnt, out |-> <<>>]
        ELSE [svcs |-> [svcs EXCEPT ![slot].gsdm_msg_id = msg_id],
              schema |-> AddRegisteredPathsToSchema(sch, us.registered_paths, us.group_id),
              count |-> msg_id[2],
              out |-> << Msg(us.endpoint_id, us.controller_mtp, "GET_SUPPORTED_DM",
                             msg_id, "OK", us.registered_paths) >>]

\* No Service counts as having registered already
AlreadyRegistered_Never(svcs, found) == FALSE

\* The check of USP_BROKER_HandleRegister on a sender found in usp_services[]:
\* it "has already successfully registered some paths"
AlreadyRegistered(svcs, found) == found # 0 /\ svcs[found].registered_paths # <<>>

\* USP_BROKER_HandleRegister
USP_BROKER_HandleRegister(endpoint_id, mtpc, msg_id, wellformed, allow_partial, reg_paths, inform_ok) ==
    LET arg == [msg_id |-> msg_id, mtpc |-> mtpc, wellformed |-> wellformed,
                allow_partial |-> allow_partial, reg_paths |-> reg_paths,
                inform_ok |-> inform_ok]
        found == FindUspServiceByEndpoint(usp_services, endpoint_id)
        added == AddUspService(usp_services, hooks, endpoint_id, mtpc)
        Fail(err, svcs, hk) ==
            /\ usp_services' = svcs
            /\ hooks' = hk
            /\ out' = << ErrorResp(endpoint_id, mtpc, msg_id, err) >>
            /\ last' = Obs("Register", endpoint_id, arg, err)
            /\ UNCHANGED <<schema, count>>
    IN
    /\ Running
    /\ count < MaxCount
    /\ found # 0 \/ CalcNextUspServiceInstanceNumber(usp_services) <= MaxInstance
    /\ UNCHANGED <<id_count, request_table, subscriptions, aborted>>
    /\ IF ~wellformed THEN Fail("MESSAGE_NOT_UNDERSTOOD", usp_services, hooks)
       ELSE IF reg_paths = <<>> THEN Fail("REGISTER_FAILURE", usp_services, hooks)
       ELSE IF AlreadyRegistered(usp_services, found)
       THEN Fail("REGISTER_FAILURE", usp_services, hooks)
       ELSE IF found = 0 /\ added.slot = 0 THEN Fail("REGISTER_FAILURE", usp_services, hooks)
       ELSE IF found = 0 /\ ~inform_ok THEN Fail("REGISTER_FAILURE", added.svcs, added.hooks)
       ELSE LET slot == IF found # 0 THEN found ELSE added.slot
                svcs0 == IF found # 0 THEN usp_services ELSE added.svcs
                hk0 == IF found # 0 THEN hooks ELSE added.hooks
                loop == RegisterLoop(svcs0, schema, slot, reg_paths, allow_partial, <<>>)
                resp == IF loop.err # "OK"
                        THEN ErrorResp(endpoint_id, mtpc, msg_id, loop.err)
                        ELSE Msg(endpoint_id, mtpc, "REGISTER_RESP", msg_id, "OK", loop.results)
                q == IF Len(loop.results) > 0
                     THEN QueueGetSupportedDMToUspService(loop.svcs, schema, count, slot)
                     ELSE [svcs |-> loop.svcs, schema |-> schema, count |-> count, out |-> <<>>]
            IN  /\ usp_services' = q.svcs
                /\ schema' = q.schema
                /\ count' = q.count
                /\ hooks' = hk0
                /\ out' = <<resp>> \o q.out
                /\ last' = Obs("Register", endpoint_id, arg, loop.err)

-----------------------------------------------------------------------------
(* Connection and disconnection *)

\* USP_BROKER_AddUspService
USP_BROKER_AddUspService(endpoint_id, mtpc, inform_ok) ==
    LET found == FindUspServiceByEndpoint(usp_services, endpoint_id)
        added == AddUspService(usp_services, hooks, endpoint_id, mtpc)
        SetHasController(us) ==
            IF mtpc.protocol = "UDS" /\ mtpc.path_type = "BrokersAgent"
            THEN [us EXCEPT !.has_controller = TRUE] ELSE us
        arg == [mtpc |-> mtpc, inform_ok |-> inform_ok]
    IN
    /\ Running
    /\ found # 0 \/ CalcNextUspServiceInstanceNumber(usp_services) <= MaxInstance
    /\ UNCHANGED <<schema, count, id_count, request_table, subscriptions, aborted>>
    /\ out' = <<>>
    /\ IF found # 0
       THEN /\ usp_services' = [usp_services EXCEPT ![found] =
                                   SetHasController(UpdateUspServiceMRT(@, mtpc))]
            /\ hooks' = hooks
            /\ last' = Obs("AddUspService", endpoint_id, arg, "OK")
       ELSE IF added.slot = 0
       THEN /\ UNCHANGED <<usp_services, hooks>>
            /\ last' = Obs("AddUspService", endpoint_id, arg, "RESOURCES_EXCEEDED")
       ELSE IF ~inform_ok
       THEN /\ usp_services' = added.svcs
            /\ hooks' = added.hooks
            /\ last' = Obs("AddUspService", endpoint_id, arg, "INTERNAL_ERROR")
       ELSE /\ usp_services' = [added.svcs EXCEPT ![added.slot] = SetHasController(@)]
            /\ hooks' = added.hooks
            /\ last' = Obs("AddUspService", endpoint_id, arg, "OK")

\* A disconnect that leaves the registered paths in the schema
DeRegisterPaths_None(sch, paths) == sch

RECURSIVE DeRegisterPaths(_, _)
DeRegisterPaths(sch, paths) ==
    IF paths = <<>> THEN sch
    ELSE DeRegisterPaths(DATA_MODEL_DeRegisterPath(sch, Head(paths)), Tail(paths))

\* DEVICE_REQUEST_OperationComplete / DEVICE_REQUEST_DeleteInstance on a set
\* of rows: the rows leave the Request table
NoRequest == [status |-> "None", path |-> <<>>, command_key |-> ""]

RemoveRequests(rt, instances) ==
    [i \in DOMAIN rt |-> IF i \in instances THEN NoRequest ELSE rt[i]]

\* A row of the Subscription table: the notification type, the reference
\* path, and the group id of the vendor layer that serves the subscription
\* (NON_GROUPED while the core mechanism serves it)
NoSubscription == [notify_type |-> "None", path |-> <<>>, group_id |-> NON_GROUPED]

\* DEVICE_SUBSCRIPTION_FreeAllVendorLayerSubsForGroup
DEVICE_SUBSCRIPTION_FreeAllVendorLayerSubsForGroup(subs, group_id) ==
    [i \in DOMAIN subs |-> IF subs[i].notify_type # "None" /\ subs[i].group_id = group_id
                           THEN [subs[i] EXCEPT !.group_id = NON_GROUPED] ELSE subs[i]]

\* HandleUspServiceAgentDisconnect: [us, schema, request_table, completed]
FAIL_USP_COMMANDS_IN_PROGRESS == TRUE
DONT_FAIL_USP_COMMANDS_IN_PROGRESS == FALSE

HandleUspServiceAgentDisconnect(us, sch, rt, subs, flags) ==
    LET failed == IF flags THEN [i \in 1..Len(us.req_map) |->
                                    [request_instance |-> us.req_map[i].request_instance,
                                     err |-> "COMMAND_FAILURE"]]
                  ELSE <<>>
    IN  [us |-> [us EXCEPT !.subs_map = <<>>,
                           !.req_map = IF flags THEN <<>> ELSE @,
                           !.msg_map = <<>>,
                           !.registered_paths = <<>>],
         schema |-> DeRegisterPaths(sch, us.registered_paths),
         request_table |-> RemoveRequests(rt, { failed[i].request_instance : i \in 1..Len(failed) }),
         subscriptions |-> DEVICE_SUBSCRIPTION_FreeAllVendorLayerSubsForGroup(subs, us.group_id),
         completed |-> failed]

\* A disconnect of the Service's controller that keeps has_controller
ControllerOfServiceDisconnected_KeepFlag(us) == [us EXCEPT !.agent_mtp = MtpNone]

\* The case kUdsPathType_BrokersAgent of USP_BROKER_HandleUspServiceDisconnect:
\* the USP Service's controller disconnected
ControllerOfServiceDisconnected(us) ==
    [us EXCEPT !.agent_mtp = MtpNone, !.has_controller = FALSE]

\* USP_BROKER_HandleUspServiceDisconnect
USP_BROKER_HandleUspServiceDisconnect(endpoint_id, path_type) ==
    LET found == FindUspServiceByEndpoint(usp_services, endpoint_id)
        us == usp_services[found]
        arg == [path_type |-> path_type]
        d == HandleUspServiceAgentDisconnect([us EXCEPT !.controller_mtp = MtpNone],
                                             schema, request_table, subscriptions,
                                             FAIL_USP_COMMANDS_IN_PROGRESS)
        us1 == IF path_type = "BrokersAgent"
               THEN ControllerOfServiceDisconnected(us)
               ELSE d.us
        both_down == us1.controller_mtp.protocol = "None" /\ us1.agent_mtp.protocol = "None"
    IN
    /\ Running
    /\ UNCHANGED <<count, id_count, aborted>>
    /\ out' = <<>>
    /\ IF found = 0
       THEN /\ UNCHANGED <<usp_services, schema, hooks, request_table, subscriptions>>
            /\ last' = Obs("Disconnect", endpoint_id, arg, [known |-> FALSE, freed |-> FALSE, completed |-> <<>>])
       ELSE /\ schema' = IF path_type = "BrokersAgent" THEN schema ELSE d.schema
            /\ request_table' = IF path_type = "BrokersAgent" THEN request_table ELSE d.request_table
            /\ subscriptions' = IF path_type = "BrokersAgent" THEN subscriptions ELSE d.subscriptions
            /\ usp_services' = [usp_services EXCEPT ![found] =
                                   IF both_down THEN FreeUspService(us1) ELSE us1]
            /\ hooks' = IF both_down THEN [hooks EXCEPT ![us.group_id] = "none"] ELSE hooks
            /\ last' = Obs("Disconnect", endpoint_id, arg,
                           [known |-> TRUE, freed |-> both_down,
                            completed |-> IF path_type = "BrokersAgent" THEN <<>> ELSE d.completed])

RECURSIVE StopLoop(_, _, _, _, _)
\* The loop of USP_BROKER_Stop over the slots from i upwards:
\* [svcs, schema, subscriptions]
StopLoop(svcs, sch, rt, subs, i) ==
    IF i > MAX_USP_SERVICES THEN [svcs |-> svcs, schema |-> sch, subscriptions |-> subs]
    ELSE IF svcs[i].instance = INVALID THEN StopLoop(svcs, sch, rt, subs, i + 1)
    ELSE LET d == HandleUspServiceAgentDisconnect(svcs[i], sch, rt, subs,
                                                  DONT_FAIL_USP_COMMANDS_IN_PROGRESS)
         IN  StopLoop([svcs EXCEPT ![i] = FreeUspService(d.us)], d.schema, rt,
                      d.subscriptions, i + 1)

\* USP_BROKER_Stop
USP_BROKER_Stop ==
    LET s == StopLoop(usp_services, schema, request_table, subscriptions, 1) IN
    /\ Running
    /\ usp_services' = s.svcs
    /\ schema' = s.schema
    /\ subscriptions' = s.subscriptions
    /\ out' = <<>>
    /\ last' = Obs("Stop", "", <<>>, "OK")
    /\ UNCHANGED <<hooks, count, id_count, request_table, aborted>>

-----------------------------------------------------------------------------
(* Subscription mapping table and the subscribe vendor hooks *)

RECURSIVE TEXT_UTILS_IsPathMatch(_, _)
\* TEXT_UTILS_IsPathMatch(search_path, path_spec): path_spec is an absolute,
\* wildcarded or partial path
TEXT_UTILS_IsPathMatch(search_path, path_spec) ==
    IF path_spec = <<>> THEN search_path = <<>>
    ELSE IF path_spec = <<"">> THEN TRUE
    ELSE IF search_path = <<>> THEN FALSE
    ELSE /\ \/ Head(path_spec) = Head(search_path)
            \/ Head(path_spec) = "*" /\ Head(search_path) \in NumericTokens
         /\ TEXT_UTILS_IsPathMatch(Tail(search_path), Tail(path_spec))

\* Index of the first entry of a list that satisfies a test, or 0 for NULL
FirstIndex(list, Test(_)) ==
    LET m == { i \in 1..Len(list) : Test(list[i]) }
    IN  IF m = {} THEN 0 ELSE Min(m)

SubsMap_Add(sm, service_instance, path, subscription_id, broker_instance) ==
    Append(sm, [service_instance |-> service_instance, path |-> path,
                subscription_id |-> subscription_id, broker_instance |-> broker_instance])

\* SubsMap_Remove, ReqMap_Remove, MsgMap_Remove: unlink the entry
DLLIST_Unlink(list, index) == SubSeq(list, 1, index - 1) \o SubSeq(list, index + 1, Len(list))

\* A lookup that takes the first entry whatever its subscription id
SubsMap_FindByUspServiceSubsId_AnyId(sm, subscription_id) ==
    IF sm = <<>> THEN 0 ELSE 1

SubsMap_FindByUspServiceSubsId(sm, subscription_id) ==
    LET Test(smap) == smap.subscription_id = subscription_id IN FirstIndex(sm, Test)

SubsMap_FindByBrokerInstanceAndPath(sm, broker_instance, path) ==
    LET Test(smap) == smap.broker_instance = broker_instance /\ smap.path = path
    IN  FirstIndex(sm, Test)

SubsMap_FindByPath(sm, path) ==
    LET Test(smap) == TEXT_UTILS_IsPathMatch(path, smap.path) IN FirstIndex(sm, Test)

\* USP_BROKER_IsPathVendorSubscribable: the group id of the node, or NON_GROUPED
USP_BROKER_IsPathVendorSubscribable(sch, notify_type, path) ==
    LET node == DM_PRIV_GetNodeFromPath(sch, path)
    IN  IF node = <<>> THEN NON_GROUPED ELSE sch[node].group_id

\* The subscription id formed by Broker_GroupSubscribe: "<id_count>-<time>-BROKER"
SubscriptionId(idc) == <<"BROKER-SUB", idc>>

\* A request built by CreateBroker_...Req and sent to the Service by
\* DM_EXEC_SendRequestAndWaitForResponse: [count, out]
SendRequest(us, cnt, type, body) ==
    [count |-> CalcBrokerMessageId(cnt)[2],
     out |-> << Msg(us.endpoint_id, us.controller_mtp, type, CalcBrokerMessageId(cnt), "OK", body) >>]

\* Broker_GroupSubscribe: [svcs, count, id_count, out, err]; err = "ASSERT"
\* when the USP_ASSERT fails. add_resp is the Service's answer to the Add:
\* "NULL" (timed out), "OK" (created, at service_instance) or an error code
Broker_GroupSubscribe(svcs, cnt, idc, broker_instance, group_id, notify_type, path, add_resp, service_instance) ==
    LET slot == FindUspServiceByGroupId(svcs, group_id)
        us == svcs[slot]
        sent == SendRequest(us, cnt, "ADD",
                            [notify_type |-> notify_type, path |-> path, id |-> SubscriptionId(idc)])
        Ret(s, e) == [svcs |-> s, count |-> sent.count, id_count |-> idc + 1,
                      out |-> sent.out, err |-> e]
    IN  IF slot = 0
        THEN [svcs |-> svcs, count |-> cnt, id_count |-> idc, out |-> <<>>, err |-> "ASSERT"]
        ELSE IF us.controller_mtp.protocol = "None"
        THEN [svcs |-> svcs, count |-> cnt, id_count |-> idc, out |-> <<>>, err |-> "INTERNAL_ERROR"]
        ELSE IF add_resp = "NULL" THEN Ret(svcs, "INTERNAL_ERROR")
        ELSE IF add_resp # "OK" THEN Ret(svcs, add_resp)
        ELSE Ret([svcs EXCEPT ![slot].subs_map =
                     SubsMap_Add(@, service_instance, path, SubscriptionId(idc), broker_instance)],
                 "OK")

\* UspService_DeleteInstances: [count, out, err]
UspService_DeleteInstances(us, cnt, paths, del_resp) ==
    IF us.controller_mtp.protocol = "None"
    THEN [count |-> cnt, out |-> <<>>, err |-> "INTERNAL_ERROR"]
    ELSE [count |-> SendRequest(us, cnt, "DELETE", paths).count,
          out |-> SendRequest(us, cnt, "DELETE", paths).out,
          err |-> IF del_resp = "NULL" THEN "INTERNAL_ERROR" ELSE del_resp]

\* Broker_GroupUnsubscribe that keeps the entry when the Delete failed
Broker_GroupUnsubscribe_KeepOnFailure(svcs, cnt, broker_instance, group_id, notify_type, path, del_resp) ==
    LET slot == FindUspServiceByGroupId(svcs, group_id)
        us == svcs[slot]
        index == SubsMap_FindByBrokerInstanceAndPath(us.subs_map, broker_instance, path)
        d == UspService_DeleteInstances(us, cnt,
                 << <<"Device", "LocalAgent", "Subscription", us.subs_map[index].service_instance>> >>,
                 del_resp)
    IN  IF slot = 0 THEN [svcs |-> svcs, count |-> cnt, out |-> <<>>, err |-> "ASSERT"]
        ELSE IF index = 0
        THEN [svcs |-> svcs, count |-> cnt, out |-> <<>>, err |-> "INTERNAL_ERROR"]
        ELSE [svcs |-> IF d.err = "OK" THEN [svcs EXCEPT ![slot].subs_map = DLLIST_Unlink(@, index)]
                       ELSE svcs,
              count |-> d.count, out |-> d.out, err |-> d.err]

\* Broker_GroupUnsubscribe: [svcs, count, out, err]
Broker_GroupUnsubscribe(svcs, cnt, broker_instance, group_id, notify_type, path, del_resp) ==
    LET slot == FindUspServiceByGroupId(svcs, group_id)
        us == svcs[slot]
        index == SubsMap_FindByBrokerInstanceAndPath(us.subs_map, broker_instance, path)
        d == UspService_DeleteInstances(us, cnt,
                 << <<"Device", "LocalAgent", "Subscription", us.subs_map[index].service_instance>> >>,
                 del_resp)
    IN  IF slot = 0 THEN [svcs |-> svcs, count |-> cnt, out |-> <<>>, err |-> "ASSERT"]
        ELSE IF index = 0
        THEN [svcs |-> svcs, count |-> cnt, out |-> <<>>, err |-> "INTERNAL_ERROR"]
        ELSE [svcs |-> [svcs EXCEPT ![slot].subs_map = DLLIST_Unlink(@, index)],
              count |-> d.count, out |-> d.out, err |-> d.err]

\* A Controller adds a row to the Subscription table: the core hands the
\* subscription to the vendor layer when the path belongs to a group with a
\* subscribe hook, and serves it itself when there is none or the hook fails
Controller_AddSubscription(broker_instance, notify_type, path, add_resp, service_instance) ==
    LET group_id == USP_BROKER_IsPathVendorSubscribable(schema, notify_type, path)
        hooked == group_id # NON_GROUPED /\ hooks[group_id] = "broker"
        r == Broker_GroupSubscribe(usp_services, count, id_count, broker_instance, group_id,
                                   notify_type, path, add_resp, service_instance)
        arg == [broker_instance |-> broker_instance, notify_type |-> notify_type, path |-> path]
        Row(g) == [notify_type |-> notify_type, path |-> path, group_id |-> g]
    IN
    /\ Running
    /\ subscriptions[broker_instance] = NoSubscription
    /\ count < MaxCount /\ id_count <= MaxIdCount
    /\ UNCHANGED <<schema, hooks, request_table>>
    /\ IF ~hooked
       THEN /\ subscriptions' = [subscriptions EXCEPT ![broker_instance] = Row(NON_GROUPED)]
            /\ out' = <<>>
            /\ last' = Obs("Subscribe", "", arg, "CORE")
            /\ UNCHANGED <<usp_services, count, id_count, aborted>>
       ELSE /\ usp_services' = r.svcs
            /\ count' = r.count
            /\ id_count' = r.id_count
            /\ out' = r.out
            /\ aborted' = (r.err = "ASSERT")
            /\ subscriptions' = [subscriptions EXCEPT ![broker_instance] =
                                    Row(IF r.err = "OK" THEN group_id ELSE NON_GROUPED)]
            /\ last' = Obs("Subscribe", "", arg, r.err)

\* A Controller deletes a row of the Subscription table
Controller_DeleteSubscription(broker_instance, del_resp) ==
    LET row == subscriptions[broker_instance]
        r == Broker_GroupUnsubscribe(usp_services, count, broker_instance, row.group_id,
                                     row.notify_type, row.path, del_resp)
        arg == [broker_instance |-> broker_instance]
    IN
    /\ Running
    /\ row # NoSubscription
    /\ count < MaxCount
    /\ subscriptions' = [subscriptions EXCEPT ![broker_instance] = NoSubscription]
    /\ UNCHANGED <<schema, hooks, id_count, request_table>>
    /\ IF row.group_id = NON_GROUPED
       THEN /\ out' = <<>>
            /\ last' = Obs("Unsubscribe", "", arg, "CORE")
            /\ UNCHANGED <<usp_services, count, aborted>>
       ELSE /\ usp_services' = r.svcs
            /\ count' = r.count
            /\ out' = r.out
            /\ aborted' = (r.err = "ASSERT")
            /\ last' = Obs("Unsubscribe", "", arg, r.err)

-----------------------------------------------------------------------------
(* GetSupportedDM response *)

\* USP_REGISTER_GroupedVendorParam_ReadOnly/ReadWrite, USP_REGISTER_Event,
\* USP_REGISTER_SyncOperation/AsyncOperation followed by USP_REGISTER_GroupId:
\* the schema is left alone when the registration fails
RegisterGroupedElement(sch, path, type, group_id) ==
    IF DM_PRIV_AddSchemaPath_Ok(sch, path, type)
    THEN SetGroupId(DM_PRIV_AddSchemaPath(sch, path, type), NormTokens(path), group_id)
    ELSE sch

\* DM_PRIV_RegisterGroupedObject(group_id, path, is_writable, OVERRIDE_LAST_TYPE)
DM_PRIV_RegisterGroupedObject_Ok(sch, path) ==
    LET k == NormTokens(path) IN
    /\ k # <<>>
    /\ (k \in DOMAIN sch => IsObject(sch, k))
    /\ \A a \in Ancestors(k) \cap DOMAIN sch : IsObject(sch, a)

DM_PRIV_RegisterGroupedObject(sch, path, group_id) ==
    LET k == NormTokens(path)
        added == IF k \in DOMAIN sch THEN sch
                 ELSE DM_PRIV_AddSchemaPath(sch, path, "Object_MultiInstance")
    IN  SetGroupId(SetType(added, k, "Object_MultiInstance"), k, group_id)

RECURSIVE RegisterElements(_, _, _, _)
\* The loops of ProcessGsdm_SupportedObject over the supported parameters,
\* events and commands (elements lists them in that order)
RegisterElements(sch, obj_path, elements, group_id) ==
    IF elements = <<>> THEN sch
    ELSE LET e == Head(elements)
             path == SubSeq(obj_path, 1, Len(obj_path) - 1) \o <<e.name>>
         IN  RegisterElements(RegisterGroupedElement(sch, path, e.type, group_id),
                              obj_path, Tail(elements), group_id)

ProcessGsdm_SupportedObject(sch, sor, group_id) ==
    IF sor.supported_obj_path[1] # "Device" THEN sch
    ELSE IF sor.is_multi_instance /\ ~DM_PRIV_RegisterGroupedObject_Ok(sch, sor.supported_obj_path)
    THEN sch
    ELSE RegisterElements(IF sor.is_multi_instance
                          THEN DM_PRIV_RegisterGroupedObject(sch, sor.supported_obj_path, group_id)
                          ELSE sch,
                          sor.supported_obj_path, sor.elements, group_id)

RECURSIVE ProcessGsdm_SupportedObjects(_, _, _)
ProcessGsdm_SupportedObjects(sch, sors, group_id) ==
    IF sors = <<>> THEN sch
    ELSE ProcessGsdm_SupportedObjects(ProcessGsdm_SupportedObject(sch, Head(sors), group_id),
                                      Tail(sors), group_id)

ProcessGsdm_RequestedPath(sch, ror, group_id, registered_paths) ==
    IF STR_VECTOR_Find(registered_paths, ror.req_obj_path) = INVALID THEN sch
    ELSE IF ror.err_code # "OK" THEN sch
    ELSE ProcessGsdm_SupportedObjects(sch, ror.supported_objs, group_id)

RECURSIVE ProcessGsdm_RequestedPaths(_, _, _, _)
ProcessGsdm_RequestedPaths(sch, rors, group_id, registered_paths) ==
    IF rors = <<>> THEN sch
    ELSE ProcessGsdm_RequestedPaths(
             ProcessGsdm_RequestedPath(sch, Head(rors), group_id, registered_paths),
             Tail(rors), group_id, registered_paths)

RECURSIVE DEVICE_SUBSCRIPTION_StartAllVendorLayerSubsForGroup(_, _, _, _, _, _, _, _)
\* DEVICE_SUBSCRIPTION_StartAllVendorLayerSubsForGroup, over the rows from i
\* upwards: every row served by the core whose path now belongs to the group
\* is handed to Broker_GroupSubscribe: [svcs, count, id_count, subscriptions, out, err]
DEVICE_SUBSCRIPTION_StartAllVendorLayerSubsForGroup(svcs, sch, cnt, idc, subs, group_id, add_resp, i) ==
    IF i > MaxSubs
    THEN [svcs |-> svcs, count |-> cnt, id_count |-> idc, subscriptions |-> subs,
          out |-> <<>>, err |-> "OK"]
    ELSE IF \/ subs[i].notify_type = "None" \/ subs[i].group_id # NON_GROUPED
            \/ USP_BROKER_IsPathVendorSubscribable(sch, subs[i].notify_type, subs[i].path) # group_id
    THEN DEVICE_SUBSCRIPTION_StartAllVendorLayerSubsForGroup(svcs, sch, cnt, idc, subs, group_id, add_resp, i + 1)
    ELSE LET r == Broker_GroupSubscribe(svcs, cnt, idc, i, group_id, subs[i].notify_type,
                                        subs[i].path, add_resp, i)
             rest == DEVICE_SUBSCRIPTION_StartAllVendorLayerSubsForGroup(
                         r.svcs, sch, r.count, r.id_count,
                         IF r.err = "OK" THEN [subs EXCEPT ![i].group_id = group_id] ELSE subs,
                         group_id, add_resp, i + 1)
         IN  [rest EXCEPT !.out = r.out \o @,
                          !.err = IF r.err = "ASSERT" THEN "ASSERT" ELSE @]

\* The Service's answer to the Get of its Subscription table: err is "NULL"
\* (timed out), "OK" or the error the Service answered with; each row of
\* rows is [service_instance, subscription_id, enable, notify_type, path]
GetResp(err, rows) == [err |-> err, rows |-> rows]

\* The Subscription table of a Service that holds no row
GetRespEmpty == GetResp("OK", <<>>)

\* strstr(subscription_id, broker_unique_str) != NULL
IsBrokerSubscriptionId(subscription_id) == subscription_id[1] = "BROKER-SUB"

\* DEVICE_SUBSCRIPTION_MarkVendorLayerSubs: the first enabled row of the
\* Broker's table with this type and path that no vendor layer serves yet is
\* given to the group: [subscriptions, broker_instance]
DEVICE_SUBSCRIPTION_MarkVendorLayerSubs(subs, notify_type, path, group_id) ==
    LET m == { i \in DOMAIN subs : /\ subs[i].notify_type = notify_type
                                   /\ subs[i].path = path
                                   /\ subs[i].group_id = NON_GROUPED }
    IN  IF m = {} THEN [subscriptions |-> subs, broker_instance |-> INVALID]
        ELSE [subscriptions |-> [subs EXCEPT ![Min(m)].group_id = group_id],
              broker_instance |-> Min(m)]

\* The classification of a row that deletes nothing the Service does not own
ProcessGetSubsResponse_ResolvedPathResult_KeepForeign(st, sch, group_id, res) ==
    LET subs_group_id == USP_BROKER_IsPathVendorSubscribable(sch, res.notify_type, res.path)
        is_present == DM_PRIV_GetNodeFromPath(sch, res.path) # <<>>
        mark == DEVICE_SUBSCRIPTION_MarkVendorLayerSubs(st.subscriptions, res.notify_type,
                                                        res.path, group_id)
        Delete == [st EXCEPT !.subs_to_delete = Append(@, res.service_instance)]
    IN  IF res.notify_type \notin {"ValueChange", "ObjectCreation", "ObjectDeletion",
                                    "OperationComplete", "Event"}
        THEN st
        ELSE IF ~IsBrokerSubscriptionId(res.subscription_id) THEN st
        ELSE IF ~res.enable THEN Delete
        ELSE IF ~is_present THEN st
        ELSE IF subs_group_id # group_id THEN st
        ELSE IF SubsMap_FindByUspServiceSubsId(st.subs_map, res.subscription_id) # 0 THEN st
        ELSE IF mark.broker_instance = INVALID THEN Delete
        ELSE [st EXCEPT !.subscriptions = mark.subscriptions,
                        !.subs_map = SubsMap_Add(@, res.service_instance, res.path,
                                                 res.subscription_id, mark.broker_instance)]

\* ProcessGetSubsResponse_ResolvedPathResult: st is
\* [subs_map, subscriptions, subs_to_delete]
ProcessGetSubsResponse_ResolvedPathResult(st, sch, group_id, res) ==
    LET subs_group_id == USP_BROKER_IsPathVendorSubscribable(sch, res.notify_type, res.path)
        is_present == DM_PRIV_GetNodeFromPath(sch, res.path) # <<>>
        mark == DEVICE_SUBSCRIPTION_MarkVendorLayerSubs(st.subscriptions, res.notify_type,
                                                        res.path, group_id)
        Delete == [st EXCEPT !.subs_to_delete = Append(@, res.service_instance)]
    IN  IF res.notify_type \notin {"ValueChange", "ObjectCreation", "ObjectDeletion",
                                    "OperationComplete", "Event"}
        THEN st
        ELSE IF ~IsBrokerSubscriptionId(res.subscription_id) THEN st
        ELSE IF ~res.enable THEN Delete
        ELSE IF ~is_present THEN st
        ELSE IF subs_group_id # group_id THEN Delete
        ELSE IF SubsMap_FindByUspServiceSubsId(st.subs_map, res.subscription_id) # 0 THEN st
        ELSE IF mark.broker_instance = INVALID THEN Delete
        ELSE [st EXCEPT !.subscriptions = mark.subscriptions,
                        !.subs_map = SubsMap_Add(@, res.service_instance, res.path,
                                                 res.subscription_id, mark.broker_instance)]

RECURSIVE ResolvedPathResults(_, _, _, _)
\* The loop of ProcessGetSubsResponse over the rows of the response
ResolvedPathResults(st, sch, group_id, rows) ==
    IF rows = <<>> THEN st
    ELSE ResolvedPathResults(
             ProcessGetSubsResponse_ResolvedPathResult(st, sch, group_id, Head(rows)),
             sch, group_id, Tail(rows))

\* The path of a row of the Service's Subscription table
SubsInstancePath(service_instance) ==
    <<"Device", "LocalAgent", "Subscription", service_instance>>

\* ProcessGetSubsResponse: [subs_map, subscriptions, count, out, err]; the
\* outcome of the Delete of the stale rows is ignored
ProcessGetSubsResponse(us, sch, subs, cnt, get_resp) ==
    LET Deleted(st, d) ==
            [subs_map |-> st.subs_map, subscriptions |-> st.subscriptions, count |-> d.count,
             out |-> d.out, err |-> "OK"]
        Finish(st) ==
            IF st.subs_to_delete = <<>>
            THEN [subs_map |-> st.subs_map, subscriptions |-> st.subscriptions, count |-> cnt,
                  out |-> <<>>, err |-> "OK"]
            ELSE Deleted(st, UspService_DeleteInstances(us, cnt,
                                 [i \in DOMAIN st.subs_to_delete |->
                                     SubsInstancePath(st.subs_to_delete[i])], "OK"))
    IN  IF get_resp.err # "OK"
        THEN [subs_map |-> us.subs_map, subscriptions |-> subs, count |-> cnt,
              out |-> <<>>, err |-> get_resp.err]
        ELSE Finish(ResolvedPathResults(
                        [subs_map |-> us.subs_map, subscriptions |-> subs,
                         subs_to_delete |-> <<>>],
                        sch, us.group_id, get_resp.rows))

\* A reconcile that pairs and deletes rows and starts no subscription
SyncSubscriptions_NoStart(svcs, sch, cnt, idc, subs, slot, get_resp, add_resp) ==
    LET us == svcs[slot]
        Processed(sent, proc) ==
            [svcs |-> [svcs EXCEPT ![slot].subs_map = proc.subs_map], count |-> proc.count,
             id_count |-> idc, subscriptions |-> proc.subscriptions,
             out |-> sent.out \o proc.out, err |-> proc.err]
        Sent(sent) ==
            IF get_resp.err = "NULL"
            THEN [svcs |-> svcs, count |-> sent.count, id_count |-> idc, subscriptions |-> subs,
                  out |-> sent.out, err |-> "INTERNAL_ERROR"]
            ELSE Processed(sent, ProcessGetSubsResponse(us, sch, subs, sent.count, get_resp))
    IN  IF us.controller_mtp.protocol = "None"
        THEN [svcs |-> svcs, count |-> cnt, id_count |-> idc, subscriptions |-> subs,
              out |-> <<>>, err |-> "INTERNAL_ERROR"]
        ELSE Sent(SendRequest(us, cnt, "GET",
                              << <<"Device", "LocalAgent", "Subscription", "">> >>))

\* SyncSubscriptions: [svcs, count, id_count, subscriptions, out, err]
SyncSubscriptions(svcs, sch, cnt, idc, subs, slot, get_resp, add_resp) ==
    LET us == svcs[slot]
        Started(sent, proc, started) ==
            [started EXCEPT !.out = sent.out \o proc.out \o @,
                            !.err = IF @ = "ASSERT" THEN "ASSERT" ELSE proc.err]
        Processed(sent, proc) ==
            Started(sent, proc,
                    DEVICE_SUBSCRIPTION_StartAllVendorLayerSubsForGroup(
                        [svcs EXCEPT ![slot].subs_map = proc.subs_map], sch, proc.count, idc,
                        proc.subscriptions, us.group_id, add_resp, 1))
        Sent(sent) ==
            IF get_resp.err = "NULL"
            THEN [svcs |-> svcs, count |-> sent.count, id_count |-> idc, subscriptions |-> subs,
                  out |-> sent.out, err |-> "INTERNAL_ERROR"]
            ELSE Processed(sent, ProcessGetSubsResponse(us, sch, subs, sent.count, get_resp))
    IN  IF us.controller_mtp.protocol = "None"
        THEN [svcs |-> svcs, count |-> cnt, id_count |-> idc, subscriptions |-> subs,
              out |-> <<>>, err |-> "INTERNAL_ERROR"]
        ELSE Sent(SendRequest(us, cnt, "GET",
                              << <<"Device", "LocalAgent", "Subscription", "">> >>))

\* UspService_RefreshInstances: [count, out]; the instance cache is not modelled
UspService_RefreshInstances(us, cnt, paths) ==
    IF us.controller_mtp.protocol = "None" THEN [count |-> cnt, out |-> <<>>]
    ELSE SendRequest(us, cnt, "GET_INSTANCES", paths)

\* A GSDM response that is accepted whenever some response is awaited
IsExpectedGsdmResp_AnyMsgId(us, msg_id) == us.gsdm_msg_id # NoMsgId

\* The Broker expects a GSDM response from the Service, with this message id
IsExpectedGsdmResp(us, msg_id) == us.gsdm_msg_id # NoMsgId /\ msg_id = us.gsdm_msg_id

\* USP_BROKER_HandleGetSupportedDMResp
USP_BROKER_HandleGetSupportedDMResp(endpoint_id, msg_id, wellformed, gsdm, get_resp, add_resp) ==
    LET slot == FindUspServiceByEndpoint(usp_services, endpoint_id)
        us == usp_services[slot]
        arg == [msg_id |-> msg_id, wellformed |-> wellformed, get_resp |-> get_resp]
        sch == ProcessGsdm_RequestedPaths(schema, gsdm, us.group_id, us.registered_paths)
        svcs == [usp_services EXCEPT ![slot].gsdm_msg_id = NoMsgId]
        sync == SyncSubscriptions(svcs, sch, count, id_count, subscriptions, slot, get_resp, add_resp)
        refresh == UspService_RefreshInstances(us, sync.count, us.registered_paths)
    IN
    /\ Running
    /\ UNCHANGED request_table
    /\ IF ~wellformed \/ slot = 0 \/ ~IsExpectedGsdmResp(us, msg_id)
       THEN /\ out' = <<>>
            /\ last' = Obs("GetSupportedDMResp", endpoint_id, arg, "IGNORED")
            /\ UNCHANGED <<usp_services, schema, hooks, count, id_count, subscriptions, aborted>>
       ELSE /\ refresh.count <= MaxCount /\ sync.id_count <= MaxIdCount + 1
            /\ usp_services' = sync.svcs
            /\ schema' = sch
            /\ hooks' = [hooks EXCEPT ![us.group_id] = "broker"]
            /\ count' = refresh.count
            /\ id_count' = sync.id_count
            /\ subscriptions' = sync.subscriptions
            /\ out' = sync.out \o refresh.out
            /\ aborted' = (sync.err = "ASSERT")
            /\ last' = Obs("GetSupportedDMResp", endpoint_id, arg, "OK")

-----------------------------------------------------------------------------
(* Request mapping table, asynchronous commands and notifications *)

ReqMap_Add(rm, request_instance, path, command_key) ==
    Append(rm, [request_instance |-> request_instance, path |-> path,
                command_key |-> command_key])

\* A search of the request map that finds nothing
ReqMap_Find_Nothing(rm, path, command_key) == 0

ReqMap_Find(rm, path, command_key) ==
    LET Test(rmap) == rmap.path = path /\ rmap.command_key = command_key
    IN  FirstIndex(rm, Test)

\* SendOperateAndProcessResponse with ProcessOperateResponse:
\* [count, out, err, is_complete]. oper_resp is the Service's answer:
\* "NULL" (timed out), "REQ_OBJ_PATH", "OUTPUT_ARGS", "CMD_FAILURE" (a command
\* failure with the error code 7022), "CMD_FAILURE_0" (a command failure whose
\* err_code is 0, the value of USP_ERR_OK) or "NO_RESULT" (an operation
\* result without req_obj_path, output arguments or command failure)
SendOperateAndProcessResponse(svcs, cnt, group_id, path, is_sync, command_key, oper_resp) ==
    LET slot == FindUspServiceByGroupId(svcs, group_id)
        us == svcs[slot]
        sent == SendRequest(us, cnt, "OPERATE", [path |-> path, command_key |-> command_key])
        Ret(e, c) == [count |-> sent.count, out |-> sent.out, err |-> e, is_complete |-> c]
    IN  IF slot = 0 THEN [count |-> cnt, out |-> <<>>, err |-> "ASSERT", is_complete |-> FALSE]
        ELSE IF us.controller_mtp.protocol = "None"
        THEN [count |-> cnt, out |-> <<>>, err |-> "INTERNAL_ERROR", is_complete |-> FALSE]
        ELSE IF oper_resp = "NULL" THEN Ret("INTERNAL_ERROR", FALSE)
        ELSE IF oper_resp = "REQ_OBJ_PATH"
        THEN Ret(IF is_sync THEN "INTERNAL_ERROR" ELSE "OK", FALSE)
        ELSE IF oper_resp = "OUTPUT_ARGS" THEN Ret("OK", TRUE)
        ELSE IF oper_resp \in {"CMD_FAILURE_0", "NO_RESULT"} THEN Ret("OK", FALSE)
        ELSE Ret("COMMAND_FAILURE", FALSE)

\* Broker_AsyncOperate: [svcs, count, out, err, is_complete]
Broker_AsyncOperate(svcs, cnt, group_id, path, instance, command_key, oper_resp) ==
    LET slot == FindUspServiceByGroupId(svcs, group_id)
        us == svcs[slot]
        added == [svcs EXCEPT ![slot].req_map = ReqMap_Add(@, instance, path, command_key)]
        r == SendOperateAndProcessResponse(added, cnt, group_id, path, FALSE, command_key, oper_resp)
        Refused(e) == [svcs |-> svcs, count |-> cnt, out |-> <<>>, err |-> e, is_complete |-> FALSE]
    IN  IF slot = 0 THEN Refused("ASSERT")
        ELSE IF SubsMap_FindByPath(us.subs_map, path) = 0 THEN Refused("REQUEST_DENIED")
        ELSE IF ReqMap_Find(us.req_map, path, command_key) # 0 THEN Refused("REQUEST_DENIED")
        ELSE [svcs |-> IF r.err # "OK" \/ r.is_complete THEN svcs ELSE added,
              count |-> r.count, out |-> r.out, err |-> r.err, is_complete |-> r.is_complete]

\* A Controller invokes an asynchronous command of a Service: the core adds
\* the row of the Request table and calls the operate hook of the command; it
\* deletes the row again when the hook fails. USP_SIGNAL_OperationStatus and
\* USP_SIGNAL_OperationComplete act on the row.
Controller_AsyncOperate(instance, path, command_key, oper_resp) ==
    LET node == DM_PRIV_GetNodeFromPath(schema, path)
        group_id == schema[node].group_id
        r == Broker_AsyncOperate(usp_services, count, group_id, path, instance, command_key, oper_resp)
        arg == [instance |-> instance, path |-> path, command_key |-> command_key,
                oper_resp |-> oper_resp]
    IN
    /\ Running
    /\ count < MaxCount
    /\ request_table[instance] = NoRequest
    /\ node # <<>>
    /\ schema[node].type = "AsyncOperation"
    /\ usp_services' = r.svcs
    /\ count' = r.count
    /\ out' = r.out
    /\ aborted' = (r.err = "ASSERT")
    /\ request_table' = [request_table EXCEPT ![instance] =
                            IF r.err # "OK" \/ r.is_complete THEN NoRequest
                            ELSE [status |-> "Active", path |-> path, command_key |-> command_key]]
    /\ last' = Obs("AsyncOperate", "", arg, [err |-> r.err, is_complete |-> r.is_complete])
    /\ UNCHANGED <<schema, hooks, id_count, subscriptions>>

\* A removal that takes the first entry of the request map when none matches
DeleteMatchingOperateRequest_First(us, rt, obj_path, command_name, command_key) ==
    LET command_path == SubSeq(obj_path, 1, Len(obj_path) - 1) \o <<command_name>>
        found == ReqMap_Find(us.req_map, command_path, command_key)
        index == IF found = 0 /\ us.req_map # <<>> THEN 1 ELSE found
    IN  IF index = 0 THEN [us |-> us, request_table |-> rt]
        ELSE [us |-> [us EXCEPT !.req_map = DLLIST_Unlink(@, index)],
              request_table |-> RemoveRequests(rt, {us.req_map[index].request_instance})]

\* A removal from the request map that leaves the row of the Request table
DeleteMatchingOperateRequest_KeepRow(us, rt, obj_path, command_name, command_key) ==
    LET command_path == SubSeq(obj_path, 1, Len(obj_path) - 1) \o <<command_name>>
        index == ReqMap_Find(us.req_map, command_path, command_key)
    IN  [us |-> IF index = 0 THEN us ELSE [us EXCEPT !.req_map = DLLIST_Unlink(@, index)],
         request_table |-> rt]

\* DeleteMatchingOperateRequest: [us, request_table]
DeleteMatchingOperateRequest(us, rt, obj_path, command_name, command_key) ==
    LET command_path == SubSeq(obj_path, 1, Len(obj_path) - 1) \o <<command_name>>
        index == ReqMap_Find(us.req_map, command_path, command_key)
    IN  IF index = 0 THEN [us |-> us, request_table |-> rt]
        ELSE [us |-> [us EXCEPT !.req_map = DLLIST_Unlink(@, index)],
              request_table |-> RemoveRequests(rt, {us.req_map[index].request_instance})]

\* DEVICE_SUBSCRIPTION_RouteNotification
DEVICE_SUBSCRIPTION_RouteNotification(subs, broker_instance) ==
    IF broker_instance \in DOMAIN subs /\ subs[broker_instance].notify_type # "None"
    THEN "OK" ELSE "INTERNAL_ERROR"

\* USP_BROKER_HandleNotification. last.ret holds the error and the row of the
\* Subscription table the notification was routed to (0 when to none)
USP_BROKER_HandleNotification(endpoint_id, mtpc, msg_id, wellformed, send_resp, subscription_id, notification) ==
    LET slot == FindUspServiceByEndpoint(usp_services, endpoint_id)
        us == usp_services[slot]
        index == SubsMap_FindByUspServiceSubsId(us.subs_map, subscription_id)
        smap == us.subs_map[index]
        err == DEVICE_SUBSCRIPTION_RouteNotification(subscriptions, smap.broker_instance)
        d == IF notification.notification_case = "OperationComplete"
             THEN DeleteMatchingOperateRequest(us, request_table, notification.obj_path,
                                               notification.command_name, notification.command_key)
             ELSE [us |-> us, request_table |-> request_table]
        arg == [msg_id |-> msg_id, mtpc |-> mtpc, send_resp |-> send_resp, wellformed |-> wellformed,
                subscription_id |-> subscription_id, notification |-> notification]
        Denied == /\ out' = << ErrorResp(endpoint_id, mtpc, msg_id, "REQUEST_DENIED") >>
                  /\ last' = Obs("Notify", endpoint_id, arg, [err |-> "REQUEST_DENIED", routed_to |-> 0])
                  /\ UNCHANGED <<usp_services, request_table>>
    IN
    /\ Running
    /\ UNCHANGED <<schema, hooks, count, id_count, subscriptions, aborted>>
    /\ IF ~wellformed THEN Denied
       ELSE IF send_resp THEN Denied
       ELSE IF slot = 0 THEN Denied
       ELSE IF index = 0 THEN Denied
       ELSE /\ usp_services' = [usp_services EXCEPT ![slot] = d.us]
            /\ request_table' = d.request_table
            /\ out' = IF err # "OK" THEN << ErrorResp(endpoint_id, mtpc, msg_id, err) >> ELSE <<>>
            /\ last' = Obs("Notify", endpoint_id, arg,
                           [err |-> err, routed_to |-> smap.broker_instance])

\* No notification is held back
HoldBackDuringAdd_Never(notification_case, msg_type) == FALSE

\* The check of AttemptPassThruForNotification that holds object creation
\* and deletion notifications back while an Add request is being processed
HoldBackDuringAdd(notification_case, msg_type) ==
    notification_case \in {"ObjectCreation", "ObjectDeletion"} /\ msg_type = "ADD"

\* AttemptPassThruForNotification. msg_type is MSG_HANDLER_GetMsgType(), the
\* type of the request the Broker is in the midst of processing
AttemptPassThruForNotification(endpoint_id, mtpc, msg_id, wellformed, send_resp, subscription_id, notification, msg_type) ==
    LET slot == FindUspServiceByEndpoint(usp_services, endpoint_id)
        us == usp_services[slot]
        index == SubsMap_FindByUspServiceSubsId(us.subs_map, subscription_id)
        smap == us.subs_map[index]
        err == DEVICE_SUBSCRIPTION_RouteNotification(subscriptions, smap.broker_instance)
        arg == [msg_id |-> msg_id, mtpc |-> mtpc, send_resp |-> send_resp, wellformed |-> wellformed,
                subscription_id |-> subscription_id, notification |-> notification,
                msg_type |-> msg_type]
        Return(handled, bi, e) ==
            last' = Obs("PassthruNotify", endpoint_id, arg,
                        [handled |-> handled, err |-> e, routed_to |-> bi])
    IN
    /\ Running
    /\ out' = <<>>
    /\ UNCHANGED <<usp_services, schema, hooks, count, id_count, request_table, subscriptions, aborted>>
    /\ IF ~wellformed THEN Return(FALSE, 0, "OK")
       ELSE IF send_resp THEN Return(FALSE, 0, "OK")
       ELSE IF notification.notification_case \in {"OperationComplete", "OnBoardRequest"}
       THEN Return(FALSE, 0, "OK")
       ELSE IF HoldBackDuringAdd(notification.notification_case, msg_type)
       THEN Return(FALSE, 0, "OK")
       ELSE IF slot = 0 THEN Return(FALSE, 0, "OK")
       ELSE IF index = 0 THEN Return(FALSE, 0, "OK")
       ELSE Return(err = "OK", smap.broker_instance, err)

-----------------------------------------------------------------------------
(* Passthru *)

PERMIT_ALL == {"GET", "GET_INST", "SET", "ADD", "DEL"}

\* DM_PRIV_GetPermissions(node, combined_role): the permissions the Broker's
\* ControllerTrust tables give each role. Admin holds every permission,
\* Viewer may only read, Guest may do everything except read or write
\* Device.A.Secret and write Device.A.B.{i}.Q
DM_PRIV_GetPermissions(node, combined_role) ==
    IF combined_role = "Admin" THEN PERMIT_ALL
    ELSE IF combined_role = "Viewer" THEN {"GET", "GET_INST"}
    ELSE IF node = <<"Device", "A", "Secret">> THEN {}
    ELSE IF node = <<"Device", "A", "B", "Q">> THEN {"GET", "GET_INST"}
    ELSE PERMIT_ALL

\* FULL_DEPTH: deeper than any schema of the model
FULL_DEPTH == 100

RECURSIVE CheckPassThruPermissions(_, _, _, _, _)
CheckPassThruPermissions(sch, node, depth, required_permissions, combined_role) ==
    IF ~(required_permissions \subseteq DM_PRIV_GetPermissions(node, combined_role)) THEN FALSE
    ELSE IF depth <= 1 THEN TRUE
    ELSE \A child \in Children(sch, node) :
            CheckPassThruPermissions(sch, child, depth - 1, required_permissions, combined_role)

\* The result of the checks of an AttemptPassThruFor...Request:
\* [ok, slot, assert]; assert is TRUE when a USP_ASSERT fails
Declined == [ok |-> FALSE, slot |-> 0, assert |-> FALSE]
AssertFailed == [ok |-> FALSE, slot |-> 0, assert |-> TRUE]

RECURSIVE GetRequestLoop(_, _, _, _, _, _, _)
\* The loop of AttemptPassThruForGetRequest over param_paths from i upwards
GetRequestLoop(svcs, sch, param_paths, depth, combined_role, i, slot) ==
    IF i > Len(param_paths) THEN [ok |-> TRUE, slot |-> slot, assert |-> slot = 0]
    ELSE LET node == DM_PRIV_GetNodeFromPath(sch, param_paths[i])
             us == FindUspServiceByGroupId(svcs, sch[node].group_id)
         IN  IF node = <<>> THEN Declined
             ELSE IF ~IsObject(sch, node) /\ ~IsVendorParam(sch, node) THEN Declined
             ELSE IF sch[node].group_id = NON_GROUPED THEN Declined
             ELSE IF i = 1 /\ us = 0 THEN Declined
             ELSE IF i = 1 /\ ~is_reply_to_specified(svcs[us].controller_mtp) THEN AssertFailed
             ELSE IF i > 1 /\ sch[node].group_id # svcs[slot].group_id THEN Declined
             ELSE IF ~CheckPassThruPermissions(sch, node, depth, {"GET", "GET_INST"}, combined_role)
             THEN Declined
             ELSE GetRequestLoop(svcs, sch, param_paths, depth, combined_role, i + 1,
                                 IF i = 1 THEN us ELSE slot)

AttemptPassThruForGetRequest(svcs, sch, usp, combined_role) ==
    IF ~usp.wellformed \/ usp.paths = <<>> THEN Declined
    ELSE GetRequestLoop(svcs, sch, usp.paths,
                        IF usp.max_depth = 0 THEN FULL_DEPTH ELSE usp.max_depth,
                        combined_role, 1, 0)

RECURSIVE ParamSettingsLoop(_, _, _, _, _, _)
\* The inner loop of the Set and Add checks over param_settings from j
\* upwards: "OK", "DECLINED" or "ASSERT"
ParamSettingsLoop(sch, obj_node, group_id, params, combined_role, j) ==
    IF j > Len(params) THEN "OK"
    ELSE LET param_node == DM_PRIV_GetNodeFromPath(sch, obj_node \o <<params[j]>>)
         IN  IF param_node = <<>> THEN "DECLINED"
             ELSE IF ~IsVendorParam(sch, param_node) THEN "DECLINED"
             ELSE IF sch[param_node].group_id # group_id THEN "ASSERT"
             ELSE IF "SET" \notin DM_PRIV_GetPermissions(param_node, combined_role) THEN "DECLINED"
             ELSE ParamSettingsLoop(sch, obj_node, group_id, params, combined_role, j + 1)

RECURSIVE SetRequestLoop(_, _, _, _, _, _)
SetRequestLoop(svcs, sch, objs, combined_role, i, slot) ==
    IF i > Len(objs) THEN [ok |-> TRUE, slot |-> slot, assert |-> slot = 0]
    ELSE LET obj_node == DM_PRIV_GetNodeFromPath(sch, objs[i].obj_path)
             us == FindUspServiceByGroupId(svcs, sch[obj_node].group_id)
             group_id == IF i = 1 THEN sch[obj_node].group_id ELSE svcs[slot].group_id
             params == ParamSettingsLoop(sch, obj_node, group_id, objs[i].params, combined_role, 1)
         IN  IF obj_node = <<>> THEN Declined
             ELSE IF ~IsObject(sch, obj_node) THEN Declined
             ELSE IF i = 1 /\ us = 0 THEN Declined
             ELSE IF i = 1 /\ ~is_reply_to_specified(svcs[us].controller_mtp) THEN AssertFailed
             ELSE IF i > 1 /\ sch[obj_node].group_id # group_id THEN Declined
             ELSE IF params = "DECLINED" THEN Declined
             ELSE IF params = "ASSERT" THEN AssertFailed
             ELSE SetRequestLoop(svcs, sch, objs, combined_role, i + 1, IF i = 1 THEN us ELSE slot)

AttemptPassThruForSetRequest(svcs, sch, usp, combined_role) ==
    IF ~usp.wellformed \/ usp.objs = <<>> THEN Declined
    ELSE SetRequestLoop(svcs, sch, usp.objs, combined_role, 1, 0)

RECURSIVE AddRequestLoop(_, _, _, _, _, _)
AddRequestLoop(svcs, sch, objs, combined_role, i, slot) ==
    IF i > Len(objs) THEN [ok |-> TRUE, slot |-> slot, assert |-> slot = 0]
    ELSE LET obj_node == DM_PRIV_GetNodeFromPath(sch, objs[i].obj_path)
             us == FindUspServiceByGroupId(svcs, sch[obj_node].group_id)
             group_id == IF i = 1 THEN sch[obj_node].group_id ELSE svcs[slot].group_id
             params == ParamSettingsLoop(sch, obj_node, group_id, objs[i].params, combined_role, 1)
         IN  IF obj_node = <<>> THEN Declined
             ELSE IF sch[obj_node].type # "Object_MultiInstance" THEN Declined
             ELSE IF "ADD" \notin DM_PRIV_GetPermissions(obj_node, combined_role) THEN Declined
             ELSE IF sch[obj_node].group_id = NON_GROUPED THEN Declined
             ELSE IF i = 1 /\ us = 0 THEN Declined
             ELSE IF i = 1 /\ ~is_reply_to_specified(svcs[us].controller_mtp) THEN AssertFailed
             ELSE IF i > 1 /\ sch[obj_node].group_id # group_id THEN Declined
             ELSE IF params = "DECLINED" THEN Declined
             ELSE IF params = "ASSERT" THEN AssertFailed
             ELSE AddRequestLoop(svcs, sch, objs, combined_role, i + 1, IF i = 1 THEN us ELSE slot)

AttemptPassThruForAddRequest(svcs, sch, usp, combined_role) ==
    IF ~usp.wellformed \/ usp.objs = <<>> THEN Declined
    ELSE AddRequestLoop(svcs, sch, usp.objs, combined_role, 1, 0)

RECURSIVE DeleteRequestLoop(_, _, _, _, _, _)
DeleteRequestLoop(svcs, sch, obj_paths, combined_role, i, slot) ==
    IF i > Len(obj_paths) THEN [ok |-> TRUE, slot |-> slot, assert |-> slot = 0]
    ELSE LET node == DM_PRIV_GetNodeFromPath(sch, obj_paths[i])
             us == FindUspServiceByGroupId(svcs, sch[node].group_id)
         IN  IF node = <<>> THEN Declined
             ELSE IF sch[node].type # "Object_MultiInstance" THEN Declined
             ELSE IF i = 1 /\ us = 0 THEN Declined
             ELSE IF i = 1 /\ ~is_reply_to_specified(svcs[us].controller_mtp) THEN AssertFailed
             ELSE IF i > 1 /\ sch[node].group_id # svcs[slot].group_id THEN Declined
             ELSE IF "DEL" \notin DM_PRIV_GetPermissions(node, combined_role) THEN Declined
             ELSE DeleteRequestLoop(svcs, sch, obj_paths, combined_role, i + 1,
                                    IF i = 1 THEN us ELSE slot)

\* A check of the first obj_path of the Delete only
AttemptPassThruForDeleteRequest_FirstOnly(svcs, sch, usp, combined_role) ==
    IF ~usp.wellformed \/ usp.paths = <<>> THEN Declined
    ELSE DeleteRequestLoop(svcs, sch, <<usp.paths[1]>>, combined_role, 1, 0)

AttemptPassThruForDeleteRequest(svcs, sch, usp, combined_role) ==
    IF ~usp.wellformed \/ usp.paths = <<>> THEN Declined
    ELSE DeleteRequestLoop(svcs, sch, usp.paths, combined_role, 1, 0)

MsgMap_Add(mm, original_msg_id, broker_msg_id, endpoint_id, mtpc) ==
    Append(mm, [original_msg_id |-> original_msg_id, broker_msg_id |-> broker_msg_id,
                originator |-> endpoint_id, mtp_conn |-> mtpc])

\* A lookup that takes the oldest entry whatever its broker message id
MsgMap_Find_Oldest(mm, msg_id) ==
    IF mm = <<>> THEN 0 ELSE 1

MsgMap_Find(mm, msg_id) ==
    LET Test(map) == map.broker_msg_id = msg_id IN FirstIndex(mm, Test)

\* PassThruToUspService: [svcs, count, out, err, msg_id]. queue_ok is whether
\* MSG_HANDLER_QueueMessage accepted the message; msg_id is the msg_id that
\* the header of usp carries when the function returns
PassThruToUspService(svcs, slot, cnt, usp, endpoint_id, mtpc, queue_ok) ==
    LET us == svcs[slot]
        broker_msg_id == CalcBrokerMessageId(cnt)
    IN  IF ~queue_ok
        THEN [svcs |-> svcs, count |-> broker_msg_id[2], out |-> <<>>, err |-> "INTERNAL_ERROR",
              msg_id |-> broker_msg_id]
        ELSE [svcs |-> [svcs EXCEPT ![slot].msg_map =
                            MsgMap_Add(us.msg_map, usp.msg_id, broker_msg_id, endpoint_id, mtpc)],
              count |-> broker_msg_id[2],
              msg_id |-> broker_msg_id,
              out |-> << Msg(us.endpoint_id, us.controller_mtp, usp.msg_type, broker_msg_id,
                             "OK", usp.body) >>,
              err |-> "OK"]

INTERNAL_ROLE == "INTERNAL_ROLE"

\* USP_BROKER_AttemptPassthru for the request types. usp is
\* [msg_type, msg_id, wellformed, body], body being [paths, max_depth] for a
\* Get, [objs] for a Set or an Add and [paths] for a Delete
USP_BROKER_AttemptPassthru(usp, endpoint_id, mtpc, combined_role, queue_ok) ==
    LET req == [wellformed |-> usp.wellformed] @@ usp.body
        chk == CASE usp.msg_type = "GET" ->
                        AttemptPassThruForGetRequest(usp_services, schema, req, combined_role)
                 [] usp.msg_type = "SET" ->
                        AttemptPassThruForSetRequest(usp_services, schema, req, combined_role)
                 [] usp.msg_type = "ADD" ->
                        AttemptPassThruForAddRequest(usp_services, schema, req, combined_role)
                 [] usp.msg_type = "DELETE" ->
                        AttemptPassThruForDeleteRequest(usp_services, schema, req, combined_role)
                 [] OTHER -> Declined
        r == PassThruToUspService(usp_services, chk.slot, count, usp, endpoint_id, mtpc, queue_ok)
        arg == [usp |-> usp, mtpc |-> mtpc, combined_role |-> combined_role, queue_ok |-> queue_ok]
    IN
    /\ Running
    /\ count < MaxCount
    /\ UNCHANGED <<schema, hooks, id_count, request_table, subscriptions>>
    /\ IF combined_role = INTERNAL_ROLE \/ chk.assert
       THEN /\ aborted' = TRUE
            /\ out' = <<>>
            /\ last' = Obs("Passthru", endpoint_id, arg,
                           [handled |-> FALSE, to |-> "", msg_id |-> usp.msg_id])
            /\ UNCHANGED <<usp_services, count>>
       ELSE IF ~chk.ok
       THEN /\ out' = <<>>
            /\ last' = Obs("Passthru", endpoint_id, arg,
                           [handled |-> FALSE, to |-> "", msg_id |-> usp.msg_id])
            /\ UNCHANGED <<usp_services, count, aborted>>
       ELSE /\ usp_services' = r.svcs
            /\ count' = r.count
            /\ out' = r.out
            /\ last' = Obs("Passthru", endpoint_id, arg,
                           [handled |-> r.err = "OK", to |-> usp_services[chk.slot].endpoint_id,
                            msg_id |-> r.msg_id])
            /\ UNCHANGED aborted

\* AttemptPassThruForResponse: a response or an Error received from endpoint_id
AttemptPassThruForResponse(endpoint_id, msg_type, msg_id, wellformed) ==
    LET slot == FindUspServiceByEndpoint(usp_services, endpoint_id)
        us == usp_services[slot]
        index == MsgMap_Find(us.msg_map, msg_id)
        map == us.msg_map[index]
        arg == [msg_type |-> msg_type, msg_id |-> msg_id, wellformed |-> wellformed]
    IN
    /\ Running
    /\ UNCHANGED <<schema, hooks, count, id_count, request_table, subscriptions, aborted>>
    /\ IF ~wellformed \/ msg_id = NoMsgId \/ slot = 0 \/ index = 0
       THEN /\ out' = <<>>
            /\ last' = Obs("PassthruResponse", endpoint_id, arg, [handled |-> FALSE])
            /\ UNCHANGED usp_services
       ELSE /\ out' = << Msg(map.originator, map.mtp_conn, msg_type, map.original_msg_id, "OK", <<>>) >>
            /\ usp_services' = [usp_services EXCEPT ![slot].msg_map = DLLIST_Unlink(us.msg_map, index)]
            /\ last' = Obs("PassthruResponse", endpoint_id, arg, [handled |-> TRUE])

-----------------------------------------------------------------------------
(* Deregister *)

\* DEVICE_SUBSCRIPTION_RemoveVendorLayerSubs: the unsubscribe hook of the
\* group is called and the row of the Subscription table goes back to the
\* core mechanism: [svcs, count, out, subscriptions, err]
DEVICE_SUBSCRIPTION_RemoveVendorLayerSubs(svcs, hk, cnt, subs, group_id, broker_instance, path, del_resp) ==
    LET Marked(r) == [svcs |-> r.svcs, count |-> r.count, out |-> r.out, err |-> r.err,
                      subscriptions |-> [subs EXCEPT ![broker_instance].group_id = NON_GROUPED]]
    IN  Marked(IF hk[group_id] = "broker"
               THEN Broker_GroupUnsubscribe(svcs, cnt, broker_instance, group_id,
                                            subs[broker_instance].notify_type, path, del_resp)
               ELSE [svcs |-> svcs, count |-> cnt, out |-> <<>>, err |-> "OK"])

RECURSIVE DeRegisterSubsLoop(_, _, _, _, _, _)
\* The loop of DeRegisterUspServicePath over the entries smaps of the
\* subscription map, on the state st =
\* [svcs, hooks, schema, request_table, subscriptions, count, out, err]
DeRegisterSubsLoop(st, group_id, smaps, parent, del_resp, i) ==
    LET Removed(r) == [st EXCEPT !.svcs = r.svcs, !.count = r.count, !.out = st.out \o r.out,
                                 !.subscriptions = r.subscriptions, !.err = r.err]
        Continue(next) ==
            IF next.err # "OK" THEN next
            ELSE DeRegisterSubsLoop(next, group_id, smaps, parent, del_resp, i + 1)
    IN  IF i > Len(smaps) THEN st
        ELSE Continue(IF ~DM_PRIV_IsChildOf(smaps[i].path, parent) THEN st
                      ELSE Removed(DEVICE_SUBSCRIPTION_RemoveVendorLayerSubs(
                                       st.svcs, st.hooks, st.count, st.subscriptions, group_id,
                                       smaps[i].broker_instance, smaps[i].path, del_resp)))

SelectIndices(list, Test(_)) == { i \in 1..Len(list) : Test(list[i]) }

RECURSIVE RemoveIndices(_, _)
\* The list without the entries at the given indices
RemoveIndices(list, indices) ==
    IF indices = {} THEN list
    ELSE RemoveIndices(DLLIST_Unlink(list, Max(indices)), indices \ {Max(indices)})

\* DeRegisterUspServicePath that leaves the commands in progress alone
DeRegisterUspServicePath_KeepCommands(st, slot, path, del_resp) ==
    LET index == STR_VECTOR_Find(st.svcs[slot].registered_paths, path)
        parent == DM_PRIV_GetNodeFromPath(st.schema, path)
        Finish(s) ==
            IF s.err # "OK" THEN s
            ELSE [s EXCEPT !.svcs[slot].registered_paths = STR_VECTOR_RemoveByIndex(@, index),
                           !.schema = DATA_MODEL_DeRegisterPath(@, path)]
    IN  IF index = INVALID THEN [st EXCEPT !.err = "DEREGISTER_FAILURE"]
        ELSE IF parent = <<>> THEN [st EXCEPT !.err = "ASSERT"]
        ELSE Finish(DeRegisterSubsLoop(st, st.svcs[slot].group_id, st.svcs[slot].subs_map,
                                       parent, del_resp, 1))

\* DeRegisterUspServicePath on the state st
DeRegisterUspServicePath(st, slot, path, del_resp) ==
    LET index == STR_VECTOR_Find(st.svcs[slot].registered_paths, path)
        parent == DM_PRIV_GetNodeFromPath(st.schema, path)
        IsChild(rmap) == DM_PRIV_IsChildOf(rmap.path, parent)
        Failed(req_map) == SelectIndices(req_map, IsChild)
        Finish(s) ==
            IF s.err # "OK" THEN s
            ELSE [s EXCEPT !.svcs[slot].req_map = RemoveIndices(@, Failed(@)),
                           !.svcs[slot].registered_paths = STR_VECTOR_RemoveByIndex(@, index),
                           !.schema = DATA_MODEL_DeRegisterPath(@, path),
                           !.request_table =
                               RemoveRequests(@, { s.svcs[slot].req_map[i].request_instance :
                                                     i \in Failed(s.svcs[slot].req_map) })]
    IN  IF index = INVALID THEN [st EXCEPT !.err = "DEREGISTER_FAILURE"]
        ELSE IF parent = <<>> THEN [st EXCEPT !.err = "ASSERT"]
        ELSE Finish(DeRegisterSubsLoop(st, st.svcs[slot].group_id, st.svcs[slot].subs_map,
                                       parent, del_resp, 1))

\* A path result of a Deregister response
DeRegisteredPathResult(requested_path, paths, err) ==
    [requested_path |-> requested_path, paths |-> paths, err |-> err]

RECURSIVE DeRegisterAllPaths(_, _, _, _, _)
\* DeRegisterAllPaths: [st, results], done being the paths deregistered so
\* far and results the path results of the response
DeRegisterAllPaths(st, slot, done, results, del_resp) ==
    LET path == st.svcs[slot].registered_paths[1]
        Next(r) ==
            IF r.err = "OK" THEN DeRegisterAllPaths(r, slot, Append(done, path), results, del_resp)
            ELSE [st |-> r,
                  results |-> Append(IF done = <<>> /\ results # <<>>
                                     THEN SubSeq(results, 1, Len(results) - 1) ELSE results,
                                     DeRegisteredPathResult(<<"">>, <<path>>, r.err))]
    IN  IF st.svcs[slot].registered_paths = <<>>
        THEN [st |-> st,
              results |-> IF done = <<>> THEN results
                          ELSE Append(results, DeRegisteredPathResult(<<"">>, done, "OK"))]
        ELSE Next(DeRegisterUspServicePath(st, slot, path, del_resp))

\* The state carries on with the next path unless a USP_ASSERT failed
NextPath(st) == [st EXCEPT !.err = IF @ = "ASSERT" THEN @ ELSE "OK"]

RECURSIVE DeRegisterLoop(_, _, _, _, _)
\* The loop of USP_BROKER_HandleDeRegister over the paths: [st, results]
DeRegisterLoop(st, slot, paths, results, del_resp) ==
    LET path == Head(paths)
        Continue(r) == DeRegisterLoop(NextPath(r.st), slot, Tail(paths), r.results, del_resp)
        One(one) == [st |-> one,
                     results |-> Append(results, DeRegisteredPathResult(path, <<path>>, one.err))]
    IN  IF paths = <<>> \/ st.err = "ASSERT" THEN [st |-> st, results |-> results]
        ELSE Continue(IF path = <<"">> THEN DeRegisterAllPaths(st, slot, <<>>, results, del_resp)
                      ELSE IF ValidateUspServicePath(path) # "OK"
                      THEN One([st EXCEPT !.err = "DEREGISTER_FAILURE"])
                      ELSE One(DeRegisterUspServicePath(st, slot, path, del_resp)))

\* USP_BROKER_HandleDeRegister. del_resp is the Service's answer to the
\* Delete requests that unsubscribe
USP_BROKER_HandleDeRegister(endpoint_id, mtpc, msg_id, wellformed, paths, del_resp) ==
    LET slot == FindUspServiceByEndpoint(usp_services, endpoint_id)
        st == [svcs |-> usp_services, hooks |-> hooks, schema |-> schema,
               request_table |-> request_table, subscriptions |-> subscriptions,
               count |-> count, out |-> <<>>, err |-> "OK"]
        arg == [mtpc |-> mtpc, msg_id |-> msg_id, wellformed |-> wellformed, paths |-> paths]
        Failure(path) == DeRegisteredPathResult(path, <<path>>, "DEREGISTER_FAILURE")
        Apply(r) ==
            /\ usp_services' = r.st.svcs
            /\ schema' = r.st.schema
            /\ request_table' = r.st.request_table
            /\ subscriptions' = r.st.subscriptions
            /\ count' = r.st.count
            /\ aborted' = (r.st.err = "ASSERT")
            /\ out' = r.st.out \o
                      (IF r.st.err = "ASSERT" THEN <<>>
                       ELSE << Msg(endpoint_id, mtpc, "DEREGISTER_RESP", msg_id, "OK", r.results) >>)
            /\ last' = Obs("Deregister", endpoint_id, arg, r.results)
    IN
    /\ Running
    /\ count + (IF slot = 0 THEN 0 ELSE Len(usp_services[slot].subs_map)) <= MaxCount
    /\ UNCHANGED <<hooks, id_count>>
    /\ IF ~wellformed
       THEN /\ out' = << ErrorResp(endpoint_id, mtpc, msg_id, "MESSAGE_NOT_UNDERSTOOD") >>
            /\ last' = Obs("Deregister", endpoint_id, arg, <<>>)
            /\ UNCHANGED <<usp_services, schema, request_table, subscriptions, count, aborted>>
       ELSE IF slot = 0 \/ usp_services[slot].registered_paths = <<>>
       THEN /\ out' = << Msg(endpoint_id, mtpc, "DEREGISTER_RESP", msg_id, "OK",
                             [i \in 1..Len(paths) |-> Failure(paths[i])]) >>
            /\ last' = Obs("Deregister", endpoint_id, arg, [i \in 1..Len(paths) |-> Failure(paths[i])])
            /\ UNCHANGED <<usp_services, schema, request_table, subscriptions, count, aborted>>
       ELSE Apply(DeRegisterLoop(st, slot, paths, <<>>, del_resp))

-----------------------------------------------------------------------------
(* Initial state: after USP_BROKER_Init *)

Init ==
    /\ usp_services = [i \in Slots |-> EmptyService]
    /\ schema = InitSchema
    /\ hooks = [g \in GroupIds |-> "none"]
    /\ count = 0
    /\ id_count = 1
    /\ request_table = [i \in 1..MaxRequests |-> NoRequest]
    /\ subscriptions = [i \in 1..MaxSubs |-> NoSubscription]
    /\ out = <<>>
    /\ last = Obs("Init", "", <<>>, "OK")
    /\ aborted = FALSE

-----------------------------------------------------------------------------
(* Inputs *)

Endpoints == {"S1", "S2"}
ConnectMtps == {MtpUdsAgent, MtpUdsController}

PathA == <<"Device", "A", "">>
PathAB == <<"Device", "A", "B", "">>
PathNoDot == <<"Device", "A">>
PathInstance == <<"Device", "A", "1", "">>
PathBuiltin == <<"Device", "USPServices", "">>

RegisterPathLists ==
    { <<PathA>>, <<PathAB, PathA>>, <<PathA, PathNoDot>>, <<PathAB, PathBuiltin>>, <<PathInstance>> }

ReqMsgId == <<"req", 1>>

-----------------------------------------------------------------------------
(* Registration specification: Services register over the Broker's         *)
(* Controller socket, their agents disconnect, the Broker stops            *)

RegRegister ==
    \E e \in Endpoints, ap \in BOOLEAN, ps \in RegisterPathLists :
        /\ count < MaxRegCount
        /\ USP_BROKER_HandleRegister(e, MtpUdsController, ReqMsgId, TRUE, ap, ps, TRUE)

RegDisconnect == \E e \in Endpoints : USP_BROKER_HandleUspServiceDisconnect(e, "BrokersController")

RegStop == USP_BROKER_Stop

NextReg == RegRegister \/ RegDisconnect \/ RegStop

SpecReg == Init /\ [][NextReg]_vars

-----------------------------------------------------------------------------
(* Subscriptions, notifications and asynchronous commands of one Service    *)
(* that registered Device.A., next to a second endpoint                     *)

CmdA == <<"Device", "A", "Reboot()">>

\* The data model S1 reports below Device.A.
GsdmA ==
    << [req_obj_path |-> PathA, err_code |-> "OK", supported_objs |-> <<
          [supported_obj_path |-> PathA, is_multi_instance |-> FALSE,
           elements |-> << [name |-> "P", type |-> "VendorParam_ReadWrite"],
                           [name |-> "Secret", type |-> "VendorParam_ReadWrite"],
                           [name |-> "Ev!", type |-> "Event"],
                           [name |-> "Reboot()", type |-> "AsyncOperation"] >>],
          [supported_obj_path |-> <<"Device", "A", "B", "{i}", "">>, is_multi_instance |-> TRUE,
           elements |-> << [name |-> "Q", type |-> "VendorParam_ReadOnly"] >>] >>] >>

NotifyTypes == {"ValueChange", "OperationComplete"}

ValueChangeOfP ==
    [notification_case |-> "ValueChange", obj_path |-> PathA, command_name |-> "P", command_key |-> ""]

OperCompleteOfCmdA ==
    [notification_case |-> "OperationComplete", obj_path |-> PathA,
     command_name |-> "Reboot()", command_key |-> "k1"]

Notifications == {ValueChangeOfP, OperCompleteOfCmdA}

SubscriptionIds == { SubscriptionId(n) : n \in 1..MaxIdCount }

S1Register ==
    USP_BROKER_HandleRegister("S1", MtpUdsController, ReqMsgId, TRUE, TRUE, <<PathA>>, TRUE)

\* S1 answers the GetSupportedDM the Broker sent it
S1GsdmResp ==
    USP_BROKER_HandleGetSupportedDMResp("S1", <<"BROKER", count>>, TRUE, GsdmA, GetRespEmpty, "OK")

S2Connect == USP_BROKER_AddUspService("S2", MtpUdsController, TRUE)

S1Disconnect == USP_BROKER_HandleUspServiceDisconnect("S1", "BrokersController")

\* Notify messages: [endpoint, send_resp, subscription id, notification]
NotifyInputs ==
    { <<"S1", FALSE, SubscriptionId(1), ValueChangeOfP>>,
      <<"S1", FALSE, SubscriptionId(2), ValueChangeOfP>>,
      <<"S1", TRUE, SubscriptionId(1), ValueChangeOfP>>,
      <<"S2", FALSE, SubscriptionId(1), ValueChangeOfP>>,
      <<"S1", FALSE, SubscriptionId(1), OperCompleteOfCmdA>> }

NotifSubscribe ==
    \E bi \in 1..MaxSubs : Controller_AddSubscription(bi, "ValueChange", PathA, "OK", bi)

NotifNotify ==
    \E n \in NotifyInputs :
        USP_BROKER_HandleNotification(n[1], MtpUdsController, ReqMsgId, TRUE, n[2], n[3], n[4])

NotifPassthru ==
    \E n \in NotifyInputs :
        AttemptPassThruForNotification(n[1], MtpUdsController, ReqMsgId, TRUE, n[2], n[3], n[4], "GET")

NextNotify ==
    \/ S1Register \/ S1GsdmResp \/ S2Connect \/ S1Disconnect
    \/ NotifSubscribe \/ NotifNotify \/ NotifPassthru

SpecNotify == Init /\ [][NextNotify]_vars

-----------------------------------------------------------------------------
(* Ownership of registered paths *)

LiveSlots(svcs) == { i \in Slots : svcs[i].instance # INVALID }

RegisteredBy(svcs, i) == SeqToSet(svcs[i].registered_paths)

Occurrences(sv, str) == Cardinality({ k \in 1..Len(sv) : sv[k] = str })

\* C1: no path string is in the registered_paths of two different live
\* Services, and a path that a Register adds to the sender's registered_paths
\* was, before the Register, in no Service's registered_paths and not in the
\* schema (and is added once).
C1_Step ==
    /\ \A i, j \in LiveSlots(usp_services') :
          i # j => RegisteredBy(usp_services', i) \cap RegisteredBy(usp_services', j) = {}
    /\ last'.op = "Register" =>
          \A i \in Slots : \A p \in RegisteredBy(usp_services', i) \ RegisteredBy(usp_services, i) :
              /\ \A j \in Slots : p \notin RegisteredBy(usp_services, j)
              /\ ~PP_EXISTS_IN_SCHEMA(schema, p)
              /\ Occurrences(usp_services'[i].registered_paths, p) = 1

C1_OwnedByOne == [][C1_Step]_vars

\* Two live Services own paths, the second admitted by the last Register
C1_Witness ==
    /\ last.op = "Register" /\ last.ret = "OK"
    /\ \A i \in Slots : usp_services[i].instance # INVALID /\ usp_services[i].registered_paths # <<>>
    /\ usp_services[1].registered_paths # usp_services[2].registered_paths

\* A path of a Register fails when it is textually invalid, already
\* registered (by any Service, or earlier in the same message), or in the schema
PathFails(svcs, sch, reg_paths, k) ==
    \/ ValidateUspServicePath(reg_paths[k]) # "OK"
    \/ \E j \in Slots : reg_paths[k] \in RegisteredBy(svcs, j)
    \/ \E m \in 1..(k - 1) : reg_paths[m] = reg_paths[k]
    \/ PP_EXISTS_IN_SCHEMA(sch, reg_paths[k])

FailingPaths(svcs, sch, reg_paths) == { k \in 1..Len(reg_paths) : PathFails(svcs, sch, reg_paths, k) }

\* The sender of a Register that reaches the loop over the paths: it had no
\* registered path before and is a Service afterwards
SenderAdmitted(e) ==
    /\ \/ FindUspServiceByEndpoint(usp_services, e) = 0
       \/ usp_services[FindUspServiceByEndpoint(usp_services, e)].registered_paths = <<>>
    /\ FindUspServiceByEndpoint(usp_services', e) # 0

\* C2: a Register with allow_partial=false that holds a failing path is
\* answered with exactly one ERROR carrying the first failing path's code
\* (PATH_ALREADY_REGISTERED unless the path is textually invalid); afterwards
\* the sender has no registered path, the schema is unchanged and no
\* GetSupportedDM was sent.
C2_Step ==
    LET e == last'.endpoint
        a == last'.arg
        failing == FailingPaths(usp_services, schema, a.reg_paths)
        p == a.reg_paths[Min(failing)]
        code == IF ValidateUspServicePath(p) = "OK" THEN "PATH_ALREADY_REGISTERED"
                ELSE ValidateUspServicePath(p)
    IN  (/\ last'.op = "Register"
         /\ a.wellformed /\ ~a.allow_partial
         /\ SenderAdmitted(e)
         /\ failing # {})
        => /\ out' = << ErrorResp(e, a.mtpc, a.msg_id, code) >>
           /\ usp_services'[FindUspServiceByEndpoint(usp_services', e)].registered_paths = <<>>
           /\ schema' = schema
           /\ count' = count

C2_AllOrNothing == [][C2_Step]_vars

\* The second path of an all-or-nothing Register failed after the first one
\* had been accepted
C2_Witness ==
    /\ last.op = "Register" /\ ~last.arg.allow_partial
    /\ last.arg.reg_paths = <<PathAB, PathBuiltin>>
    /\ last.ret = "PATH_ALREADY_REGISTERED"
    /\ \A i \in Slots : PathAB \notin RegisteredBy(usp_services, i)
    /\ ~PP_EXISTS_IN_SCHEMA(schema, PathAB)
    /\ FindUspServiceByEndpoint(usp_services, last.endpoint) # 0
    /\ Len(out) = 1 /\ out[1].type = "ERROR"

\* The paths the sender of the last message has registered: before and after
SenderPathsBefore ==
    LET slot == FindUspServiceByEndpoint(usp_services, last'.endpoint) IN
    IF slot = 0 THEN <<>> ELSE usp_services[slot].registered_paths

SenderPathsAfter ==
    LET slot == FindUspServiceByEndpoint(usp_services', last'.endpoint) IN
    IF slot = 0 THEN <<>> ELSE usp_services'[slot].registered_paths

GsdmSent == { k \in 1..Len(out') : out'[k].type = "GET_SUPPORTED_DM" }

\* The keys of the schema nodes that the step added, removed or changed
TouchedNodes ==
    { k \in DOMAIN schema \cup DOMAIN schema' :
        \/ k \notin DOMAIN schema
        \/ k \notin DOMAIN schema'
        \/ schema'[k] # schema[k] }

RequestedPathsOf(results) == [k \in 1..Len(results) |-> results[k].requested_path]

C15_Step ==
    LET e == last'.endpoint
        a == last'.arg
        slot == FindUspServiceByEndpoint(usp_services', e)
        body == out'[1].body
        succeeded == SelectSeq(body, LAMBDA r : r.err = "OK")
    IN  (/\ last'.op = "Register"
         /\ a.wellformed /\ a.allow_partial
         /\ a.reg_paths # <<>>
         /\ SenderAdmitted(e))
        => /\ out'[1].type = "REGISTER_RESP"
           /\ RequestedPathsOf(body) = a.reg_paths
           /\ \A k \in 1..Len(body) :
                 body[k].err = "OK" <=> ~PathFails(usp_services, schema, a.reg_paths, k)
           /\ usp_services'[slot].registered_paths = RequestedPathsOf(succeeded)
           /\ \A t \in TouchedNodes : \E k \in 1..Len(body) :
                 body[k].err = "OK" /\ IsPrefix(t, NormTokens(a.reg_paths[k]))
           /\ \A j \in Slots \ {slot} :
                 usp_services'[j].registered_paths = usp_services[j].registered_paths

\* C15: a Register with allow_partial=true is answered with one result per
\* requested path, in request order, success for exactly the paths that were
\* admitted; afterwards registered_paths of the sender is the sequence of the
\* successful paths, and a failed path changed neither the schema nor any
\* Service's registered paths
C15_PartialRegister == [][C15_Step]_vars

\* A partial Register of which the first path was admitted and the second refused
C15_Witness ==
    /\ last.op = "Register" /\ last.arg.allow_partial
    /\ last.arg.reg_paths = <<PathA, PathNoDot>>
    /\ Len(out) = 2
    /\ out[1].type = "REGISTER_RESP"
    /\ out[1].body[1].err = "OK"
    /\ out[1].body[2].err # "OK"
    /\ usp_services[FindUspServiceByEndpoint(usp_services, last.endpoint)].registered_paths = <<PathA>>

C16_Step ==
    LET e == last'.endpoint
        a == last'.arg
    IN  (/\ last'.op = "Register"
         /\ a.wellformed
         /\ SenderPathsBefore # <<>>)
        => /\ out' = << ErrorResp(e, a.mtpc, a.msg_id, "REGISTER_FAILURE") >>
           /\ \A j \in Slots : usp_services'[j].registered_paths = usp_services[j].registered_paths
           /\ schema' = schema
           /\ GsdmSent = {}
           /\ count' = count

\* C16: a (well-formed) Register from an endpoint whose registered_paths is
\* already non-empty is answered with an ERROR carrying REGISTER_FAILURE and
\* changes neither registered_paths nor the schema; no GetSupportedDM is sent
C16_SecondRegisterRejected == [][C16_Step]_vars

\* The Service that registered Device.A. was refused a second Register
C16_Witness ==
    LET slot == FindUspServiceByEndpoint(usp_services, last.endpoint) IN
    /\ last.op = "Register"
    /\ last.ret = "REGISTER_FAILURE"
    /\ slot # 0
    /\ usp_services[slot].registered_paths = <<PathA>>
    /\ last.arg.reg_paths = <<PathAB, PathA>>
    /\ Len(out) = 1 /\ out[1].type = "ERROR"

-----------------------------------------------------------------------------
(* Routing of notifications *)

\* The entries of a Service's subs_map with the given subscription id
SubsWithId(svcs, slot, subscription_id) ==
    { i \in 1..Len(svcs[slot].subs_map) : svcs[slot].subs_map[i].subscription_id = subscription_id }

\* C3: a Notify is routed to a row of the Subscription table (by the normal
\* handler or by passthru) only if its sender is a live Service, send_resp is
\* false and the sender's own subs_map holds an entry with the Notify's
\* subscription id, and then to that entry's broker_instance; the normal
\* handler answers every other Notify with one ERROR REQUEST_DENIED and
\* routes it nowhere.
C3_Step ==
    LET e == last'.endpoint
        a == last'.arg
        slot == FindUspServiceByEndpoint(usp_services, e)
        accepted == /\ slot # 0
                    /\ ~a.send_resp
                    /\ SubsWithId(usp_services, slot, a.subscription_id) # {}
    IN  last'.op \in {"Notify", "PassthruNotify"} =>
           /\ last'.ret.routed_to # 0 =>
                 /\ accepted
                 /\ \E i \in SubsWithId(usp_services, slot, a.subscription_id) :
                       usp_services[slot].subs_map[i].broker_instance = last'.ret.routed_to
           /\ (last'.op = "Notify" /\ ~accepted) =>
                 /\ out' = << ErrorResp(e, a.mtpc, a.msg_id, "REQUEST_DENIED") >>
                 /\ last'.ret.routed_to = 0

C3_NotifyRouting == [][C3_Step]_vars

\* S1's Notify was routed to the second row of the Subscription table while
\* S1 holds two subscriptions and S2 is a live Service without any
C3_Witness ==
    /\ last.op = "Notify" /\ last.endpoint = "S1" /\ last.ret.routed_to = 2
    /\ out = <<>>
    /\ \E i, j \in Slots :
          /\ usp_services[i].endpoint_id = "S1" /\ Len(usp_services[i].subs_map) = 2
          /\ usp_services[j].endpoint_id = "S2" /\ usp_services[j].instance # INVALID

-----------------------------------------------------------------------------
(* Passthru of requests from Controllers of three roles to one Service     *)
(* that registered Device.A.                                               *)

Roles == {"Admin", "Guest", "Viewer"}

GetReq(paths, max_depth) ==
    [msg_type |-> "GET", msg_id |-> ReqMsgId, wellformed |-> TRUE,
     body |-> [paths |-> paths, max_depth |-> max_depth]]

ObjsReq(msg_type, objs) ==
    [msg_type |-> msg_type, msg_id |-> ReqMsgId, wellformed |-> TRUE, body |-> [objs |-> objs]]

DeleteReq(paths) ==
    [msg_type |-> "DELETE", msg_id |-> ReqMsgId, wellformed |-> TRUE, body |-> [paths |-> paths]]

ParamP == <<"Device", "A", "P">>
ParamSecret == <<"Device", "A", "Secret">>
InstanceB1 == <<"Device", "A", "B", "1", "">>
InstanceB2 == <<"Device", "A", "B", "2", "">>

PermRequests ==
    { GetReq(<<PathA>>, 0), GetReq(<<PathA>>, 1), GetReq(<<PathA>>, 2),
      GetReq(<<ParamP>>, 0), GetReq(<<ParamSecret>>, 1), GetReq(<<ParamP, ParamSecret>>, 0),
      GetReq(<<PathAB>>, 1), GetReq(<<PathBuiltin>>, 0),
      [GetReq(<<PathA>>, 0) EXCEPT !.wellformed = FALSE],
      ObjsReq("SET", << [obj_path |-> PathA, params |-> <<"P">>] >>),
      ObjsReq("SET", << [obj_path |-> PathA, params |-> <<"P", "Secret">>] >>),
      ObjsReq("SET", << [obj_path |-> InstanceB1, params |-> <<"Q">>] >>),
      ObjsReq("ADD", << [obj_path |-> PathAB, params |-> <<"Q">>] >>),
      ObjsReq("ADD", << [obj_path |-> PathAB, params |-> <<>>] >>),
      ObjsReq("ADD", << [obj_path |-> PathA, params |-> <<"P">>] >>),
      DeleteReq(<<InstanceB1>>), DeleteReq(<<InstanceB1, InstanceB2>>),
      [msg_type |-> "OPERATE", msg_id |-> ReqMsgId, wellformed |-> TRUE, body |-> [paths |-> <<CmdA>>]] }

PermRequest ==
    \/ \E usp \in PermRequests, role \in Roles :
            USP_BROKER_AttemptPassthru(usp, "C1", MtpWs, role, TRUE)
    \/ USP_BROKER_AttemptPassthru(GetReq(<<ParamP>>, 0), "C1", MtpWs, "Admin", FALSE)

NextPerm == S1Register \/ S1GsdmResp \/ PermRequest \/ S1Disconnect

SpecPerm == Init /\ [][NextPerm]_vars

-----------------------------------------------------------------------------
(* Permissions of passed through requests *)

\* The node and its descendants down to max_depth levels (all when 0)
Descendants(sch, node, max_depth) ==
    { n \in DOMAIN sch : IsPrefix(node, n) /\ (max_depth = 0 \/ Len(n) - Len(node) <= max_depth) }

HoldsOn(node, permission, combined_role) ==
    permission \in DM_PRIV_GetPermissions(node, combined_role)

ParamsPermitted(sch, obj, combined_role) ==
    \A j \in 1..Len(obj.params) :
        HoldsOn(DM_PRIV_GetNodeFromPath(sch, obj.obj_path) \o <<obj.params[j]>>, "SET", combined_role)

PermittedOnEveryNode(sch, usp, combined_role) ==
    CASE usp.msg_type = "GET" ->
            \A i \in 1..Len(usp.body.paths) :
                \A n \in Descendants(sch, DM_PRIV_GetNodeFromPath(sch, usp.body.paths[i]),
                                     usp.body.max_depth) :
                    HoldsOn(n, "GET", combined_role)
      [] usp.msg_type = "SET" ->
            \A i \in 1..Len(usp.body.objs) : ParamsPermitted(sch, usp.body.objs[i], combined_role)
      [] usp.msg_type = "ADD" ->
            \A i \in 1..Len(usp.body.objs) :
                /\ HoldsOn(DM_PRIV_GetNodeFromPath(sch, usp.body.objs[i].obj_path), "ADD", combined_role)
                /\ ParamsPermitted(sch, usp.body.objs[i], combined_role)
      [] usp.msg_type = "DELETE" ->
            \A i \in 1..Len(usp.body.paths) :
                HoldsOn(DM_PRIV_GetNodeFromPath(sch, usp.body.paths[i]), "DEL", combined_role)
      [] OTHER -> FALSE

C4_Step ==
    last'.op = "Passthru" =>
        IF last'.ret.handled
        THEN PermittedOnEveryNode(schema, last'.arg.usp, last'.arg.combined_role)
        ELSE out' = <<>> /\ usp_services' = usp_services

\* C4: a request is passed through only when the role holds the permission on
\* every node it refers to (Get: the get permission on each requested node and
\* on every descendant down to max_depth levels, all of them when max_depth is
\* 0; Set: the set permission on each listed parameter; Add: the add
\* permission on the object and the set permission on each listed parameter;
\* Delete: the delete permission on each object); a request that is not
\* passed through sends nothing and records nothing
C4_PermissionOnEveryNode == [][C4_Step]_vars

-----------------------------------------------------------------------------
(* Passthru of the requests of two Controllers that use the same message   *)
(* id, to two Services, and of the Services' responses                     *)

PathC == <<"Device", "C", "">>
ParamR == <<"Device", "C", "R">>

\* The data model S2 reports below Device.C.
GsdmC ==
    << [req_obj_path |-> PathC, err_code |-> "OK", supported_objs |-> <<
          [supported_obj_path |-> PathC, is_multi_instance |-> FALSE,
           elements |-> << [name |-> "R", type |-> "VendorParam_ReadWrite"] >>] >>] >>

MtpMqtt == [protocol |-> "MQTT", path_type |-> "Invalid"]

\* The Controllers and the connection each is reached by
Originators == { <<"C1", MtpWs>>, <<"C2", MtpMqtt>> }

\* The message ids Services answer with: that of a request in flight, or
\* once more that of the response before
ResponseMsgIds ==
    { m.broker_msg_id : m \in UNION { SeqToSet(usp_services[i].msg_map) : i \in Slots } }
        \cup (IF last.op = "PassthruResponse" /\ last.arg.msg_id # NoMsgId
              THEN {last.arg.msg_id} ELSE {})

S2Register ==
    USP_BROKER_HandleRegister("S2", MtpUdsController, ReqMsgId, TRUE, TRUE, <<PathC>>, TRUE)

S2GsdmResp ==
    LET slot == FindUspServiceByEndpoint(usp_services, "S2") IN
    /\ slot # 0
    /\ USP_BROKER_HandleGetSupportedDMResp("S2", usp_services[slot].gsdm_msg_id, TRUE, GsdmC,
                                           GetRespEmpty, "OK")

PassRequest ==
    \E o \in Originators, param \in {ParamP, ParamR} :
        USP_BROKER_AttemptPassthru(GetReq(<<param>>, 0), o[1], o[2], "Admin", TRUE)

PassResponse ==
    \/ \E e \in Endpoints, msg_id \in ResponseMsgIds :
            AttemptPassThruForResponse(e, "GET_RESP", msg_id, TRUE)
    \/ AttemptPassThruForResponse("S1", "ERROR", NoMsgId, TRUE)

PassStop == USP_BROKER_Stop

\* S1 registers first and once, S2 right after S1 has reported its data model
PassS1Register == count = 0 /\ S1Register

PassS2Register == count = 3 /\ S2Register

NextPass ==
    \/ PassS1Register \/ S1GsdmResp \/ PassS2Register \/ S2GsdmResp
    \/ PassRequest \/ PassResponse \/ S1Disconnect \/ PassStop

SpecPass == Init /\ [][NextPass]_vars

-----------------------------------------------------------------------------
(* Routing of responses to passed through requests *)

MsgMapEntries(svcs, slot) == SeqToSet(svcs[slot].msg_map)

AllMsgMapEntries(svcs) == UNION { MsgMapEntries(svcs, i) : i \in Slots }

\* The entry a passed through request is recorded by
EntryOf(obs, sent) ==
    [original_msg_id |-> obs.arg.usp.msg_id, broker_msg_id |-> sent.msg_id,
     originator |-> obs.endpoint, mtp_conn |-> obs.arg.mtpc]

C5_Request ==
    (last'.op = "Passthru" /\ last'.ret.handled) =>
        \E slot \in LiveSlots(usp_services) :
            /\ Len(out') = 1
            /\ out'[1].to = usp_services[slot].endpoint_id
            /\ usp_services'[slot].msg_map =
                   Append(usp_services[slot].msg_map, EntryOf(last', out'[1]))
            /\ \A m \in AllMsgMapEntries(usp_services) : m.broker_msg_id # out'[1].msg_id

C5_Response ==
    (last'.op = "PassthruResponse" /\ last'.ret.handled) =>
        LET slot == FindUspServiceByEndpoint(usp_services, last'.endpoint) IN
        /\ slot # 0
        /\ \E m \in MsgMapEntries(usp_services, slot) :
              /\ m.broker_msg_id = last'.arg.msg_id
              /\ out' = << Msg(m.originator, m.mtp_conn, last'.arg.msg_type, m.original_msg_id,
                               "OK", <<>>) >>

C5_Kept ==
    \A slot \in Slots :
        MsgMapEntries(usp_services', slot) \subseteq
            MsgMapEntries(usp_services, slot) \cup
                (IF last'.op = "Passthru" /\ last'.ret.handled
                 THEN {EntryOf(last', out'[1])} ELSE {})

\* C5: a passed through request is recorded, under the broker message id it
\* was sent with, with the endpoint and the connection of the Controller it
\* came from and with its original message id; the record is never altered;
\* a response is passed back to the endpoint and over the connection recorded
\* for its broker message id, carrying the recorded original message id. So
\* when two Controllers use the same message id, each response reaches the
\* Controller whose request it answers, in whatever order they arrive
C5_ResponseToItsOriginator == [][C5_Request /\ C5_Response /\ C5_Kept]_vars

\* S2's response reaches C2 while the earlier request of C1, sent with the
\* same message id, is still in flight
C5_Witness ==
    /\ last.op = "PassthruResponse"
    /\ last.ret.handled
    /\ last.endpoint = "S2"
    /\ out = << Msg("C2", MtpMqtt, "GET_RESP", ReqMsgId, "OK", <<>>) >>
    /\ \E m \in AllMsgMapEntries(usp_services) :
          /\ m.originator = "C1"
          /\ m.original_msg_id = ReqMsgId
          /\ m.broker_msg_id[2] < last.arg.msg_id[2]

-----------------------------------------------------------------------------
(* Life of the message map entries *)

MsgMapPositions(svcs) == { <<i, k>> : i \in Slots, k \in 1..MaxCount }

C6_Distinct ==
    /\ \A p, q \in { x \in MsgMapPositions(usp_services') :
                        x[2] <= Len(usp_services'[x[1]].msg_map) } :
          p # q => usp_services'[p[1]].msg_map[p[2]].broker_msg_id #
                   usp_services'[q[1]].msg_map[q[2]].broker_msg_id
    /\ \A m \in AllMsgMapEntries(usp_services') \ AllMsgMapEntries(usp_services) :
          m.broker_msg_id[2] > count
    /\ \A m \in AllMsgMapEntries(usp_services') : m.broker_msg_id[2] <= count'

C6_Removed ==
    \A slot \in Slots :
        \A m \in MsgMapEntries(usp_services, slot) \ MsgMapEntries(usp_services', slot) :
            \/ /\ last'.op = "PassthruResponse"
               /\ last'.endpoint = usp_services[slot].endpoint_id
               /\ last'.arg.msg_id = m.broker_msg_id
               /\ Len(usp_services'[slot].msg_map) = Len(usp_services[slot].msg_map) - 1
            \/ /\ last'.op = "Disconnect"
               /\ last'.endpoint = usp_services[slot].endpoint_id
               /\ last'.arg.path_type = "BrokersController"
               /\ usp_services'[slot].msg_map = <<>>
            \/ last'.op = "Stop"

C6_NoEntry ==
    LET slot == FindUspServiceByEndpoint(usp_services, last'.endpoint) IN
    (/\ last'.op = "PassthruResponse"
     /\ \/ slot = 0
        \/ \A m \in MsgMapEntries(usp_services, slot) : m.broker_msg_id # last'.arg.msg_id)
        => /\ ~last'.ret.handled
           /\ out' = <<>>
           /\ usp_services' = usp_services

\* C6: the message map entries of all Services carry pairwise distinct broker
\* message ids, and a new entry's id is above the counter, so above the id
\* of every entry created before it; an entry leaves its map only by the
\* response that carries its broker message id (which removes that entry
\* alone), by the controller-direction disconnect of its Service, or by
\* USP_BROKER_Stop, which runs the same disconnect handling for every
\* Service; a response whose broker message id has no entry in the sender's
\* map (a second response among them) is not passed back
C6_EntryLife == [][C6_Distinct /\ C6_Removed /\ C6_NoEntry]_vars

\* S1 registered, reported its data model and was sent two requests, with
\* the broker message ids 4 and 5; its response to 4 removed the entry of 4;
\* its second response to 4 is not passed back and the entry of 5 stays
C6_Witness ==
    /\ last.op = "PassthruResponse"
    /\ ~last.ret.handled
    /\ last.endpoint = "S1"
    /\ last.arg.msg_id = <<"BROKER", 4>>
    /\ FindUspServiceByEndpoint(usp_services, "S2") = 0
    /\ \E m \in AllMsgMapEntries(usp_services) : m.broker_msg_id = <<"BROKER", 5>>

-----------------------------------------------------------------------------
(* Connections and disconnections of the two sockets of each Service       *)

DisconnectPathTypes == {"BrokersAgent", "BrokersController"}

LifeConnect ==
    \E e \in Endpoints, mtpc \in ConnectMtps : USP_BROKER_AddUspService(e, mtpc, TRUE)

LifeRegister == count < MaxRegCount /\ S1Register

LifeDisconnect ==
    \E e \in Endpoints, path_type \in DisconnectPathTypes :
        USP_BROKER_HandleUspServiceDisconnect(e, path_type)

NextLife == LifeConnect \/ LifeRegister \/ LifeDisconnect

SpecLife == Init /\ [][NextLife]_vars

IsConnected(mtp) == mtp.protocol # "None"

C7_Step ==
    last'.op = "Disconnect" =>
        LET slot == FindUspServiceByEndpoint(usp_services, last'.endpoint)
            us == usp_services[slot]
            controller_up == IsConnected(us.controller_mtp) /\ last'.arg.path_type # "BrokersController"
            agent_up == IsConnected(us.agent_mtp) /\ last'.arg.path_type # "BrokersAgent"
        IN  /\ last'.ret.known <=> slot # 0
            /\ slot # 0 =>
                  /\ last'.ret.freed <=> (~controller_up /\ ~agent_up)
                  /\ last'.ret.freed <=> usp_services'[slot].instance = INVALID
                  /\ ~last'.ret.freed =>
                        /\ usp_services'[slot].instance = us.instance
                        /\ usp_services'[slot].endpoint_id = us.endpoint_id
                        /\ IsConnected(usp_services'[slot].controller_mtp) <=> controller_up
                        /\ IsConnected(usp_services'[slot].agent_mtp) <=> agent_up
                  /\ \A other \in Slots \ {slot} : usp_services'[other] = usp_services[other]

\* C7: after USP_BROKER_HandleUspServiceDisconnect for a known endpoint the
\* Service's slot is freed exactly when neither its controller_mtp nor its
\* agent_mtp is connected any more; otherwise the Service keeps its slot, its
\* instance number and its endpoint_id
C7_FreedIffBothDown == [][C7_Step]_vars

\* S1, which registered a path and is also connected to the Broker's Agent
\* socket, keeps its slot when its agent disconnects
C7_Witness ==
    /\ last.op = "Disconnect"
    /\ last.endpoint = "S1"
    /\ last.arg.path_type = "BrokersController"
    /\ ~last.ret.freed
    /\ \E slot \in LiveSlots(usp_services) :
          /\ usp_services[slot].endpoint_id = "S1"
          /\ usp_services[slot].instance = 2
          /\ ~IsConnected(usp_services[slot].controller_mtp)
          /\ IsConnected(usp_services[slot].agent_mtp)

-----------------------------------------------------------------------------
(* Asynchronous commands of one Service, which is connected to both        *)
(* sockets of the Broker: subscriptions, Operate, OperationComplete,       *)
(* Deregister, disconnect and Stop                                         *)

OperS1Register == count = 0 /\ S1Register

\* S1 also connects its Controller to the Broker's Agent socket
OperS1Agent == count <= 1 /\ USP_BROKER_AddUspService("S1", MtpUdsAgent, TRUE)

OperSubscribe ==
    \E bi \in 1..MaxSubs, notify_type \in NotifyTypes :
        Controller_AddSubscription(bi, notify_type, PathA, "OK", bi)

\* Operate requests: [row of the Request table, command key, answer of the Service]
OperateInputs ==
    { <<1, "k1", "REQ_OBJ_PATH">>, <<2, "k2", "REQ_OBJ_PATH">>, <<2, "k1", "REQ_OBJ_PATH">>,
      <<1, "k1", "OUTPUT_ARGS">>, <<1, "k1", "CMD_FAILURE">> }

OperOperate ==
    \E o \in OperateInputs : Controller_AsyncOperate(o[1], CmdA, o[2], o[3])

OperComplete ==
    \E subscription_id \in SubscriptionIds :
        USP_BROKER_HandleNotification("S1", MtpUdsController, ReqMsgId, TRUE, FALSE,
                                      subscription_id, OperCompleteOfCmdA)

OperPass == USP_BROKER_AttemptPassthru(GetReq(<<ParamP>>, 0), "C1", MtpWs, "Admin", TRUE)

OperDeregister ==
    \E paths \in { <<PathA>>, << <<"">> >> } :
        USP_BROKER_HandleDeRegister("S1", MtpUdsController, ReqMsgId, TRUE, paths, "OK")

OperDisconnect ==
    \E path_type \in DisconnectPathTypes : USP_BROKER_HandleUspServiceDisconnect("S1", path_type)

OperStop == USP_BROKER_Stop

NextOper ==
    \/ OperS1Register \/ OperS1Agent \/ S1GsdmResp \/ OperSubscribe \/ OperOperate
    \/ OperComplete \/ OperPass \/ OperDeregister \/ OperDisconnect \/ OperStop

SpecOper == Init /\ [][NextOper]_vars

-----------------------------------------------------------------------------
(* Disconnect of the agent of a Service *)

C8_Step ==
    (last'.op = "Disconnect" /\ last'.arg.path_type = "BrokersController" /\ last'.ret.known) =>
        LET slot == FindUspServiceByEndpoint(usp_services, last'.endpoint)
            us == usp_services[slot]
            after == usp_services'[slot]
        IN  /\ after.subs_map = <<>>
            /\ after.msg_map = <<>>
            /\ after.req_map = <<>>
            /\ after.registered_paths = <<>>
            /\ \A i \in 1..Len(us.req_map) :
                  /\ request_table'[us.req_map[i].request_instance] = NoRequest
                  /\ \E k \in 1..Len(last'.ret.completed) :
                        /\ last'.ret.completed[k].request_instance = us.req_map[i].request_instance
                        /\ last'.ret.completed[k].err = "COMMAND_FAILURE"
            /\ \A i \in 1..Len(us.registered_paths) :
                  \A n \in DOMAIN schema' : ~IsPrefix(NormTokens(us.registered_paths[i]), n)

\* C8: after the controller-direction disconnect of a Service its subs_map,
\* msg_map, req_map and registered_paths are empty, every command that was
\* in its req_map has been completed with COMMAND_FAILURE (and its row has
\* left the Request table), and no node at or below a path it had registered
\* is left in the schema
C8_DisconnectCleansUp == [][C8_Step]_vars

\* S1, still connected to the Broker's Agent socket, has lost its agent
\* while two of its commands were in progress
C8_Witness ==
    /\ last.op = "Disconnect"
    /\ last.endpoint = "S1"
    /\ last.arg.path_type = "BrokersController"
    /\ ~last.ret.freed
    /\ Len(last.ret.completed) = 2
    /\ PathA \notin DOMAIN schema
    /\ \E slot \in LiveSlots(usp_services) : usp_services[slot].endpoint_id = "S1"

-----------------------------------------------------------------------------
(* Start of asynchronous commands *)

\* The Service that owns the command of an Operate request
OwnerOf(sch, svcs, path) ==
    FindUspServiceByGroupId(svcs, sch[DM_PRIV_GetNodeFromPath(sch, path)].group_id)

\* The Service holds a subscription to OperationComplete that matches the path
HasOperCompleteSubs(us, subs, path) ==
    \E i \in 1..Len(us.subs_map) :
        /\ TEXT_UTILS_IsPathMatch(path, us.subs_map[i].path)
        /\ subs[us.subs_map[i].broker_instance].notify_type = "OperationComplete"

C9_Step ==
    (last'.op = "AsyncOperate" /\ ~aborted') =>
        LET slot == OwnerOf(schema, usp_services, last'.arg.path)
            us == usp_services[slot]
        IN  IF HasOperCompleteSubs(us, subscriptions, last'.arg.path)
            THEN TRUE
            ELSE /\ last'.ret.err # "OK"
                 /\ out' = <<>>
                 /\ usp_services'[slot].req_map = us.req_map

\* C9: Broker_AsyncOperate starts a command (adds an entry to the req_map
\* and sends the Operate) only if the subs_map of the Service holds a
\* subscription to OperationComplete whose path matches the path of the
\* command; otherwise it returns an error, sends nothing and leaves the
\* req_map as it was
C9_NeedsOperCompleteSubs == [][C9_Step]_vars

-----------------------------------------------------------------------------
(* Entries of the request maps and rows of the Request table *)

ReqMapEntries(svcs, slot) == SeqToSet(svcs[slot].req_map)

\* Each entry of a request map names a row that is in the Request table
C10_Linked(svcs, rt) ==
    \A slot \in Slots : \A rmap \in ReqMapEntries(svcs, slot) :
        /\ rmap.request_instance \in DOMAIN rt
        /\ rt[rmap.request_instance].status = "Active"

\* The rows of the entries that leave a request map in this step leave the
\* Request table
C10_RowsOfRemoved ==
    \A slot \in Slots :
        \A rmap \in ReqMapEntries(usp_services, slot) \ ReqMapEntries(usp_services', slot) :
            request_table'[rmap.request_instance] = NoRequest

\* An Operate that fails or completes at once leaves neither entry nor row
C10_NotStarted ==
    (last'.op = "AsyncOperate" /\ (last'.ret.err # "OK" \/ last'.ret.is_complete)) =>
        /\ request_table'[last'.arg.instance] = NoRequest
        /\ \A slot \in Slots : \A rmap \in ReqMapEntries(usp_services', slot) :
              rmap.request_instance # last'.arg.instance

\* C10 as stated: between handlers each entry of a request map names a row
\* of the Request table, and every operation that removes an entry
\* (OperationComplete notification, Deregister, disconnect, USP_BROKER_Stop,
\* failure or immediate completion of the Operate) also deletes or completes
\* the row
C10_RowAndEntry ==
    [][C10_Linked(usp_services', request_table') /\ C10_RowsOfRemoved /\ C10_NotStarted]_vars

\* C10: between handlers each entry of a request map names a row of the
\* Request table, and every operation that removes an entry while the Broker
\* runs (OperationComplete notification, Deregister, disconnect, failure or
\* immediate completion of the Operate) also deletes or completes the row;
\* USP_BROKER_Stop frees the entries and leaves the Request table as it is
C10_RowAndEntryUntilStop ==
    [][/\ C10_Linked(usp_services', request_table')
       /\ C10_NotStarted
       /\ IF last'.op = "Stop"
          THEN /\ request_table' = request_table
               /\ \A slot \in Slots : usp_services'[slot].req_map = <<>>
          ELSE C10_RowsOfRemoved]_vars

\* The Broker stopped while a command was in progress: its row is still in
\* the Request table, the request maps are gone
C10_Witness ==
    /\ last.op = "Stop"
    /\ \E i \in DOMAIN request_table : request_table[i].status = "Active"
    /\ \A slot \in Slots : usp_services[slot].req_map = <<>>

-----------------------------------------------------------------------------
(* One Service registers, reports its data model and deregisters            *)

\* A response of S1 to the GetSupportedDM for Device.A. that also lists an
\* object outside the requested path
GsdmAWithC ==
    << [req_obj_path |-> PathA, err_code |-> "OK", supported_objs |-> <<
          [supported_obj_path |-> PathA, is_multi_instance |-> FALSE,
           elements |-> << [name |-> "P", type |-> "VendorParam_ReadWrite"] >>],
          [supported_obj_path |-> PathC, is_multi_instance |-> FALSE,
           elements |-> << [name |-> "R", type |-> "VendorParam_ReadWrite"] >>] >>] >>

\* The response for both Device.A. and Device.C.
GsdmAAndC == GsdmA \o GsdmC

RoundRegister ==
    \E ps \in { <<PathA>>, <<PathA, PathC>> } :
        USP_BROKER_HandleRegister("S1", MtpUdsController, ReqMsgId, TRUE, TRUE, ps, TRUE)

RoundGsdmResp ==
    \E gsdm \in { GsdmA, GsdmAAndC, GsdmAWithC } :
        USP_BROKER_HandleGetSupportedDMResp("S1", <<"BROKER", count>>, TRUE, gsdm, GetRespEmpty, "OK")

RoundSubscribe ==
    \E bi \in 1..MaxSubs : Controller_AddSubscription(bi, "ValueChange", ParamP, "OK", bi)

RoundDeregister ==
    \E paths \in { <<PathA>>, << <<"">> >> }, del_resp \in {"OK", "NULL"} :
        USP_BROKER_HandleDeRegister("S1", MtpUdsController, ReqMsgId, TRUE, paths, del_resp)

NextRound == RoundRegister \/ RoundGsdmResp \/ RoundSubscribe \/ RoundDeregister \/ S1Disconnect

SpecRound == Init /\ [][NextRound]_vars

\* The Deregister of the empty path that the last handler served took every
\* registered path from its sender, whose data model had been discovered
DeregisteredAll ==
    LET slot == FindUspServiceByEndpoint(usp_services, last'.endpoint) IN
    /\ last'.op = "Deregister"
    /\ last'.arg.wellformed
    /\ last'.arg.paths = << <<"">> >>
    /\ ~aborted'
    /\ slot # 0
    /\ usp_services[slot].registered_paths # <<>>
    /\ usp_services[slot].gsdm_msg_id = NoMsgId
    /\ usp_services'[slot].registered_paths = <<>>

\* C11: a Register accepted from a Service, followed after the GetSupportedDM
\* response by a Deregister of the empty path, leaves the schema as it was
\* before the Register (the schema of USP_BROKER_Init, the Service being the
\* only one that registers): no node added on behalf of the Service remains
C11_RegisterDeregisterRoundTrip == [][DeregisteredAll => schema' = InitSchema]_vars


-----------------------------------------------------------------------------
(* Two Services connect, register, report and disconnect                   *)

\* The connection a message of endpoint e arrives on is one e has with the Broker
ConnectedOn(e, mtpc) ==
    LET slot == FindUspServiceByEndpoint(usp_services, e) IN
    /\ slot # 0
    /\ IF mtpc.path_type = "BrokersAgent"
       THEN usp_services[slot].agent_mtp = mtpc
       ELSE usp_services[slot].controller_mtp = mtpc

ReserveRegister ==
    \E e \in Endpoints, mtpc \in ConnectMtps :
        /\ count < MaxRegCount
        /\ ConnectedOn(e, mtpc)
        /\ USP_BROKER_HandleRegister(e, mtpc, ReqMsgId, TRUE, TRUE, <<PathA>>, TRUE)

ReserveGsdmResp ==
    \E e \in Endpoints :
        LET slot == FindUspServiceByEndpoint(usp_services, e) IN
        /\ slot # 0
        /\ usp_services[slot].gsdm_msg_id # NoMsgId
        /\ USP_BROKER_HandleGetSupportedDMResp(e, usp_services[slot].gsdm_msg_id, TRUE, GsdmA,
                                               GetRespEmpty, "OK")

ReserveDeregister ==
    \E e \in Endpoints, mtpc \in ConnectMtps :
        /\ ConnectedOn(e, mtpc)
        /\ USP_BROKER_HandleDeRegister(e, mtpc, ReqMsgId, TRUE, << <<"">> >>, "OK")

NextReserve ==
    LifeConnect \/ ReserveRegister \/ ReserveGsdmResp \/ ReserveDeregister \/ LifeDisconnect

SpecReserve == Init /\ [][NextReserve]_vars

\* C12: every path in the registered_paths of a live Service resolves to a
\* schema node, and that node carries the group id of the Service; the path
\* is reserved from the moment the Register is accepted, whichever socket of
\* the Broker the Service is connected on
C12_RegisteredPathsReserved ==
    \A i \in LiveSlots(usp_services) : \A p \in RegisteredBy(usp_services, i) :
        LET node == DM_PRIV_GetNodeFromPath(schema, p) IN
        /\ node # <<>>
        /\ schema[node].group_id = usp_services[i].group_id

\* The Register response, then one GetSupportedDM for the registered paths
RespThenGsdm ==
    LET slot == FindUspServiceByEndpoint(usp_services', last'.endpoint) IN
    /\ Len(out') = 2
    /\ out'[1].type = "REGISTER_RESP"
    /\ out'[1].msg_id = last'.arg.msg_id
    /\ out'[2].type = "GET_SUPPORTED_DM"
    /\ out'[2].to = last'.endpoint
    /\ out'[2].body = usp_services'[slot].registered_paths
    /\ out'[2].msg_id # NoMsgId
    /\ out'[2].msg_id = usp_services'[slot].gsdm_msg_id

C14_Step ==
    last'.op = "Register" =>
        IF SenderPathsAfter # SenderPathsBefore THEN RespThenGsdm ELSE GsdmSent = {}

SenderHasControllerMtp ==
    LET slot == FindUspServiceByEndpoint(usp_services', last'.endpoint) IN
    slot # 0 /\ is_reply_to_specified(usp_services'[slot].controller_mtp)

SenderGsdmMsgIdKept ==
    LET before == FindUspServiceByEndpoint(usp_services, last'.endpoint)
        after == FindUspServiceByEndpoint(usp_services', last'.endpoint)
    IN  (before # 0 /\ after # 0) =>
            usp_services'[after].gsdm_msg_id = usp_services[before].gsdm_msg_id

C14_ConnectedStep ==
    last'.op = "Register" =>
        IF SenderPathsAfter # SenderPathsBefore /\ SenderHasControllerMtp
        THEN RespThenGsdm
        ELSE GsdmSent = {} /\ SenderGsdmMsgIdKept

-----------------------------------------------------------------------------
(* Two Services connected to the Broker's Controller socket register paths *)

OverlapPathLists == { <<PathA>>, <<PathAB>>, <<PathC>>, <<PathA, PathAB>>, <<PathC, PathAB>> }

OverlapRegister ==
    \E e \in Endpoints, allow_partial \in BOOLEAN, ps \in OverlapPathLists :
        /\ count < MaxRegCount
        /\ USP_BROKER_HandleRegister(e, MtpUdsController, ReqMsgId, TRUE, allow_partial, ps, TRUE)

OverlapGsdmResp ==
    \E e \in Endpoints, gsdm \in {GsdmA, GsdmC} :
        LET slot == FindUspServiceByEndpoint(usp_services, e) IN
        /\ slot # 0
        /\ usp_services[slot].gsdm_msg_id # NoMsgId
        /\ USP_BROKER_HandleGetSupportedDMResp(e, usp_services[slot].gsdm_msg_id, TRUE, gsdm,
                                               GetRespEmpty, "OK")

OverlapDisconnect ==
    \E e \in Endpoints : USP_BROKER_HandleUspServiceDisconnect(e, "BrokersController")

NextOverlap == OverlapRegister \/ OverlapGsdmResp \/ OverlapDisconnect

SpecOverlap == Init /\ [][NextOverlap]_vars

\* Path p is q, or an ancestor of q, in the schema
Covers(p, q) == IsPrefix(NormTokens(p), NormTokens(q))

\* C13: no registered path of a live Service equals, or is an ancestor or a
\* descendant of, a registered path of another live Service
C13_RegisteredPathsDisjoint ==
    \A i \in LiveSlots(usp_services), j \in LiveSlots(usp_services) :
        i # j => \A p \in RegisteredBy(usp_services, i), q \in RegisteredBy(usp_services, j) :
                    ~Covers(p, q) /\ ~Covers(q, p)


-----------------------------------------------------------------------------
(* Requests of Controllers for the data models of two Services             *)

PathCD == <<"Device", "C", "D", "">>
InstanceD1 == <<"Device", "C", "D", "1", "">>
ParamX == <<"Device", "X", "Y">>
PathX == <<"Device", "X", "">>

\* The data model S2 reports below Device.C., with a table
GsdmCD ==
    << [req_obj_path |-> PathC, err_code |-> "OK", supported_objs |-> <<
          [supported_obj_path |-> PathC, is_multi_instance |-> FALSE,
           elements |-> << [name |-> "R", type |-> "VendorParam_ReadWrite"] >>],
          [supported_obj_path |-> <<"Device", "C", "D", "{i}", "">>, is_multi_instance |-> TRUE,
           elements |-> << [name |-> "Q", type |-> "VendorParam_ReadOnly"] >>] >>] >>

RouteRequests ==
    { GetReq(<<ParamP>>, 0), GetReq(<<ParamP, ParamSecret>>, 0), GetReq(<<ParamR>>, 0),
      GetReq(<<ParamP, ParamR>>, 0), GetReq(<<ParamR, ParamP>>, 0),
      GetReq(<<ParamP, PathBuiltin>>, 0), GetReq(<<PathBuiltin>>, 0), GetReq(<<ParamP, ParamX>>, 0),
      ObjsReq("SET", << [obj_path |-> PathA, params |-> <<"P">>] >>),
      ObjsReq("SET", << [obj_path |-> PathA, params |-> <<"P">>],
                        [obj_path |-> PathC, params |-> <<"R">>] >>),
      ObjsReq("SET", << [obj_path |-> PathA, params |-> <<"P">>],
                        [obj_path |-> PathBuiltin, params |-> <<>>] >>),
      ObjsReq("SET", << [obj_path |-> PathA, params |-> <<"Y">>] >>),
      ObjsReq("ADD", << [obj_path |-> PathAB, params |-> <<>>] >>),
      ObjsReq("ADD", << [obj_path |-> PathAB, params |-> <<>>],
                        [obj_path |-> PathCD, params |-> <<>>] >>),
      ObjsReq("ADD", << [obj_path |-> PathAB, params |-> <<>>],
                        [obj_path |-> PathX, params |-> <<>>] >>),
      DeleteReq(<<InstanceB1>>), DeleteReq(<<InstanceB1, InstanceD1>>),
      DeleteReq(<<InstanceD1, PathBuiltin>>) }

RouteS1Connect == USP_BROKER_AddUspService("S1", MtpUdsAgent, TRUE)

RouteS1Register == count < MaxRegCount /\ S1Register

RouteS1GsdmResp ==
    \E gsdm \in {GsdmA, GsdmAWithC} :
        LET slot == FindUspServiceByEndpoint(usp_services, "S1") IN
        /\ slot # 0
        /\ USP_BROKER_HandleGetSupportedDMResp("S1", usp_services[slot].gsdm_msg_id, TRUE, gsdm,
                                               GetRespEmpty, "OK")

RouteS2Register == count < MaxRegCount /\ S2Register

RouteS2GsdmResp ==
    LET slot == FindUspServiceByEndpoint(usp_services, "S2") IN
    /\ slot # 0
    /\ USP_BROKER_HandleGetSupportedDMResp("S2", usp_services[slot].gsdm_msg_id, TRUE, GsdmCD,
                                           GetRespEmpty, "OK")

RouteRequest ==
    \E usp \in RouteRequests : USP_BROKER_AttemptPassthru(usp, "C1", MtpWs, "Admin", TRUE)

NextRoute ==
    \/ RouteS1Connect \/ RouteS1Register \/ RouteS1GsdmResp \/ RouteS2Register
    \/ RouteS2GsdmResp \/ RouteRequest \/ S1Disconnect

SpecRoute == Init /\ [][NextRoute]_vars

\* The schema nodes a request refers to: the objects and parameters it names
ReferencedNodes(usp) ==
    IF usp.msg_type \in {"GET", "DELETE"}
    THEN { NormTokens(usp.body.paths[k]) : k \in 1..Len(usp.body.paths) }
    ELSE UNION { {NormTokens(usp.body.objs[k].obj_path)}
                    \cup { NormTokens(usp.body.objs[k].obj_path) \o <<usp.body.objs[k].params[j]>> :
                              j \in 1..Len(usp.body.objs[k].params) } :
                 k \in 1..Len(usp.body.objs) }

\* Every referenced node exists and carries the group id of the live Service in slot
OwnedBy(usp, slot) ==
    \A n \in ReferencedNodes(usp) :
        n \in DOMAIN schema /\ schema[n].group_id = usp_services[slot].group_id

C17_Step ==
    LET usp == last'.arg.usp
        owners == { slot \in LiveSlots(usp_services) : OwnedBy(usp, slot) }
    IN  last'.op = "Passthru" =>
          /\ last'.ret.handled =>
                \E slot \in owners :
                    /\ Len(out') = 1
                    /\ out'[1].to = usp_services[slot].endpoint_id
          /\ owners = {} =>
                /\ ~last'.ret.handled
                /\ out' = <<>>
                /\ \A i \in Slots : usp_services'[i].msg_map = usp_services[i].msg_map

\* C17: a Get, Set, Add or Delete is passed through only if every path it
\* references resolves to a schema node and all those nodes carry the group
\* id of one live Service, to which the request is then sent; a request that
\* mixes paths of two Services, or that references a NON_GROUPED or unknown
\* path, is not passed through: nothing is sent and no MsgMapEntry is created
\* (nor is anything sent when the assertion on the owner's connection stops
\* the Broker, which C18 is about)
C17_PassthruOnlyToOneOwner == [][C17_Step]_vars

\* Requests of each kind were refused for mixing the paths of S1 and S2
C17_Witness ==
    /\ last.op = "Passthru"
    /\ last.arg.usp = DeleteReq(<<InstanceB1, InstanceD1>>)
    /\ ~last.ret.handled
    /\ ~aborted
    /\ \E i \in LiveSlots(usp_services), j \in LiveSlots(usp_services) :
          /\ i # j
          /\ NormTokens(InstanceB1) \in DOMAIN schema
          /\ NormTokens(InstanceD1) \in DOMAIN schema
          /\ schema[NormTokens(InstanceB1)].group_id = usp_services[i].group_id
          /\ schema[NormTokens(InstanceD1)].group_id = usp_services[j].group_id
    /\ \E i \in Slots : usp_services[i].msg_map # <<>>


\* The live Services that own a schema node while their connection to the
\* Broker's Controller socket is down
UnreachableOwners ==
    { i \in LiveSlots(usp_services) :
        /\ ~is_reply_to_specified(usp_services[i].controller_mtp)
        /\ \E n \in DOMAIN schema : schema[n].group_id = usp_services[i].group_id }

\* C18: no schema node carries the group id of a live Service whose
\* controller_mtp is unconnected, so that whenever passthru selects the owner
\* of a path the assertion on its connection holds and the Broker keeps running
C18_OwnerConnected == UnreachableOwners = {} /\ ~aborted


-----------------------------------------------------------------------------
(* Notifications that arrive while the Broker waits for a Service's response *)

ObjCreationOfB1 == [notification_case |-> "ObjectCreation", obj_path |-> InstanceB1]
ObjDeletionOfB1 == [notification_case |-> "ObjectDeletion", obj_path |-> InstanceB1]
OnBoardReq == [notification_case |-> "OnBoardRequest", obj_path |-> <<>>]

HoldNotifications ==
    {ValueChangeOfP, OperCompleteOfCmdA, ObjCreationOfB1, ObjDeletionOfB1, OnBoardReq}

\* MSG_HANDLER_GetMsgType(): the request the Broker is processing
HoldMsgTypes == {"GET", "ADD"}

HoldSubscribe ==
    \E bi \in 1..MaxSubs, notify_type \in {"ObjectCreation", "ValueChange"} :
        Controller_AddSubscription(bi, notify_type, PathA, "OK", bi)

HoldPassthru ==
    \E n \in HoldNotifications, msg_type \in HoldMsgTypes, id \in SubscriptionIds :
        AttemptPassThruForNotification("S1", MtpUdsController, ReqMsgId, TRUE, FALSE, id, n, msg_type)

HoldRegister == count < MaxRegCount /\ S1Register

NextHold == HoldRegister \/ S1GsdmResp \/ HoldSubscribe \/ HoldPassthru \/ S1Disconnect

SpecHold == Init /\ [][NextHold]_vars

C19_Step ==
    LET a == last'.arg
        notification_case == a.notification.notification_case
    IN  (/\ last'.op = "PassthruNotify"
         /\ \/ notification_case \in {"OperationComplete", "OnBoardRequest"}
            \/ notification_case \in {"ObjectCreation", "ObjectDeletion"} /\ a.msg_type = "ADD")
        => /\ ~last'.ret.handled
           /\ last'.ret.routed_to = 0
           /\ out' = <<>>
           /\ subscriptions' = subscriptions

\* C19: AttemptPassThruForNotification declines (routes nothing for)
\* OperationComplete and OnBoardRequest notifications, and ObjectCreation and
\* ObjectDeletion notifications while the message being processed is an Add:
\* during a passthru Add the notification of the created object is not
\* forwarded to the Controller before the Add response
C19_HeldBackNotifications == [][C19_Step]_vars

\* An ObjectCreation of a subscription known to the Broker was held back
\* during an Add
C19_Witness ==
    LET slot == FindUspServiceByEndpoint(usp_services, "S1") IN
    /\ last.op = "PassthruNotify"
    /\ last.arg.notification = ObjCreationOfB1
    /\ last.arg.msg_type = "ADD"
    /\ ~last.ret.handled
    /\ slot # 0
    /\ SubsMap_FindByUspServiceSubsId(usp_services[slot].subs_map, last.arg.subscription_id) # 0


-----------------------------------------------------------------------------
(* Vendor hooks of the group ids *)

\* The group ids that have a vendor hook registered
GroupsInUse == { g \in DOMAIN hooks : hooks[g] # "none" }

\* The group ids of the live Services
GroupsOfLiveServices == { usp_services[i].group_id : i \in LiveSlots(usp_services) }

\* C20: a group id has vendor hooks registered if and only if a live Service
\* slot owns it: AddUspService marks the group in use, and once a slot has
\* been freed, by a disconnect with both directions down or by
\* USP_BROKER_Stop, all vendor hooks of its group id have been detached
C20_HooksIffLiveService == GroupsInUse = GroupsOfLiveServices


-----------------------------------------------------------------------------
(* Disconnect of a Service's controller from the Broker's Agent socket     *)

AgentConnect == USP_BROKER_AddUspService("S1", MtpUdsAgent, TRUE)

AgentSubscribe == Controller_AddSubscription(1, "OperationComplete", PathA, "OK", 1)

AgentOperate == Controller_AsyncOperate(1, CmdA, "k1", "REQ_OBJ_PATH")

AgentPass == USP_BROKER_AttemptPassthru(GetReq(<<ParamP>>, 0), "C1", MtpWs, "Admin", TRUE)

NextAgent ==
    \/ HoldRegister \/ S1GsdmResp \/ AgentConnect \/ AgentSubscribe \/ AgentOperate
    \/ AgentPass \/ OperDisconnect

SpecAgent == Init /\ [][NextAgent]_vars

C21_Step ==
    LET slot == FindUspServiceByEndpoint(usp_services, last'.endpoint)
        us == usp_services[slot]
        after == usp_services'[slot]
    IN  (/\ last'.op = "Disconnect"
         /\ last'.arg.path_type = "BrokersAgent"
         /\ slot # 0
         /\ is_reply_to_specified(us.controller_mtp))
        => /\ after.agent_mtp = MtpNone
           /\ after.has_controller = FALSE
           /\ after = [us EXCEPT !.agent_mtp = MtpNone, !.has_controller = FALSE]
           /\ \A i \in Slots \ {slot} : usp_services'[i] = usp_services[i]
           /\ schema' = schema
           /\ hooks' = hooks
           /\ request_table' = request_table
           /\ subscriptions' = subscriptions

\* C21: the disconnect of a Service's controller from the Broker's Agent
\* socket, while the Service is still connected to the Broker's Controller
\* socket, clears agent_mtp and sets has_controller to false, and leaves
\* controller_mtp, registered_paths, subs_map, req_map, msg_map, gsdm_msg_id
\* (every other field of the Service) and the schema unchanged
C21_AgentSocketDisconnect == [][C21_Step]_vars

\* Such a disconnect of a Service that had a registered path, a subscription,
\* a command in progress and a request passed through to it
C21_Witness ==
    LET slot == FindUspServiceByEndpoint(usp_services, last.endpoint) IN
    /\ last.op = "Disconnect"
    /\ last.arg.path_type = "BrokersAgent"
    /\ slot # 0
    /\ is_reply_to_specified(usp_services[slot].controller_mtp)
    /\ usp_services[slot].registered_paths # <<>>
    /\ usp_services[slot].subs_map # <<>>
    /\ usp_services[slot].req_map # <<>>
    /\ usp_services[slot].msg_map # <<>>
    /\ ~usp_services[slot].has_controller


-----------------------------------------------------------------------------
(* Deregister requests that mix explicit paths and the empty path           *)

AllPaths == <<"">>

DeregPathLists ==
    { <<PathA>>, <<AllPaths>>, <<PathA, AllPaths>>, <<AllPaths, PathA>>, <<PathC, AllPaths>> }

DeregDeregister ==
    \E paths \in DeregPathLists, del_resp \in {"OK", "NULL"} :
        USP_BROKER_HandleDeRegister("S1", MtpUdsController, ReqMsgId, TRUE, paths, del_resp)

NextDereg == RoundRegister \/ RoundGsdmResp \/ RoundSubscribe \/ DeregDeregister \/ S1Disconnect

SpecDereg == Init /\ [][NextDereg]_vars

C22_Step ==
    (last'.op = "Deregister" /\ last'.arg.wellformed /\ ~aborted')
    => /\ Len(last'.ret) = Len(last'.arg.paths)
       /\ \A i \in 1..Len(last'.ret) : last'.ret[i].requested_path = last'.arg.paths[i]

\* C22: the DeregisterResp for a Deregister with n paths holds exactly n
\* deregistered_path_results, the i-th for the i-th requested path, for every
\* mix of explicit paths and empty paths
C22_OneResultPerPath == [][C22_Step]_vars


-----------------------------------------------------------------------------
(* Deregister of one path by a Service with subscriptions and commands in  *)
(* progress                                                                *)

UnregSubscribe ==
    \E bi \in 1..MaxSubs, s \in { <<"ValueChange", ParamR>>, <<"OperationComplete", PathA>> } :
        Controller_AddSubscription(bi, s[1], s[2], "OK", bi)

UnregOperate ==
    \E o \in { <<1, "k1">>, <<2, "k2">> } : Controller_AsyncOperate(o[1], CmdA, o[2], "REQ_OBJ_PATH")

UnregDeregister ==
    \E path \in {PathA, PathC, PathAB}, del_resp \in {"OK", "NULL"} :
        USP_BROKER_HandleDeRegister("S1", MtpUdsController, ReqMsgId, TRUE, <<path>>, del_resp)

UnregS2Register == count < MaxRegCount /\ S2Register

UnregRegister ==
    /\ count < MaxRegCount
    /\ USP_BROKER_HandleRegister("S1", MtpUdsController, ReqMsgId, TRUE, TRUE, <<PathA, PathC>>, TRUE)

UnregGsdmResp ==
    USP_BROKER_HandleGetSupportedDMResp("S1", <<"BROKER", count>>, TRUE, GsdmAAndC, GetRespEmpty, "OK")

NextUnreg ==
    UnregRegister \/ UnregGsdmResp \/ UnregS2Register \/ UnregSubscribe \/ UnregOperate \/ UnregDeregister

SpecUnreg == Init /\ [][NextUnreg]_vars

\* The entries of a map whose path lies outside the subtree of path P
Outside(map, P) == SelectSeq(map, LAMBDA entry : ~Covers(P, entry.path))

\* The rows of the Request table of the commands in progress below path P
RequestsUnder(map, P) ==
    { map[i].request_instance : i \in { j \in 1..Len(map) : Covers(P, map[j].path) } }

C23_Deregistered(slot, P) ==
    LET us == usp_services[slot]
        after == usp_services'[slot]
    IN  /\ after.subs_map = Outside(us.subs_map, P)
        /\ after.req_map = Outside(us.req_map, P)
        /\ \A i \in DOMAIN request_table :
              request_table'[i] = IF i \in RequestsUnder(us.req_map, P) THEN NoRequest
                                  ELSE request_table[i]
        /\ \E n \in 1..Len(us.registered_paths) :
              /\ us.registered_paths[n] = P
              /\ after.registered_paths = STR_VECTOR_RemoveByIndex(us.registered_paths, n)
        /\ \A k \in DOMAIN schema' : ~IsPrefix(NormTokens(P), k)
        /\ \A k \in DOMAIN schema :
              ~IsPrefix(NormTokens(P), k) => k \in DOMAIN schema' /\ schema'[k] = schema[k]
        /\ after = [us EXCEPT !.subs_map = after.subs_map, !.req_map = after.req_map,
                              !.registered_paths = after.registered_paths]
        /\ \A i \in Slots \ {slot} : usp_services'[i] = usp_services[i]

C23_Step ==
    LET slot == FindUspServiceByEndpoint(usp_services, last'.endpoint)
        P == last'.arg.paths[1]
        owned == slot # 0 /\ P \in RegisteredBy(usp_services, slot)
    IN  (last'.op = "Deregister" /\ last'.arg.wellformed /\ Len(last'.arg.paths) = 1 /\ ~aborted')
        => /\ (last'.ret[1].err = "OK") => (owned /\ C23_Deregistered(slot, P))
           /\ ~owned => /\ last'.ret[1].err = "DEREGISTER_FAILURE"
                        /\ UNCHANGED <<usp_services, schema, hooks, request_table, subscriptions>>

\* C23: a successful Deregister of path P by its owner removes from the
\* owner's subs_map and req_map exactly the entries below P, deletes the
\* Request rows of those commands, and removes P from registered_paths and
\* the schema, leaving every other entry, the msg_map and the other Services
\* alone; a Deregister of a path that its sender does not own reports
\* DEREGISTER_FAILURE and changes nothing
C23_DeregisterOnePath == [][C23_Step]_vars

\* A Deregister of Device.A. that removed a subscription below it, with a
\* Delete request sent to the Service, and kept a subscription below Device.C.
C23_Witness ==
    LET slot == FindUspServiceByEndpoint(usp_services, last.endpoint) IN
    /\ last.op = "Deregister"
    /\ last.arg.paths = <<PathA>>
    /\ last.ret[1].err = "OK"
    /\ \E i \in DOMAIN subscriptions :
          subscriptions[i].path = PathA /\ subscriptions[i].group_id = NON_GROUPED
    /\ usp_services[slot].subs_map # <<>>
    /\ usp_services[slot].req_map = <<>>
    /\ out # <<>>

\* A Deregister of a path that its sender, owner of another path, had not
\* registered
C23_WitnessNotOwned ==
    LET slot == FindUspServiceByEndpoint(usp_services, last.endpoint) IN
    /\ last.op = "Deregister"
    /\ last.arg.paths = <<PathAB>>
    /\ slot # 0
    /\ usp_services[slot].registered_paths # <<>>
    /\ last.ret[1].err = "DEREGISTER_FAILURE"


-----------------------------------------------------------------------------
(* A subscription that is handed to a Service and taken back                *)

\* The rows of Device.LocalAgent.Subscription. of a Service that the Broker
\* created, by instance number
ServiceSubscriptionTable(us) ==
    { us.subs_map[i].service_instance : i \in 1..Len(us.subs_map) }

\* A Service that executes the requests it receives: the Add that it answers
\* with success created the row, the Delete that reached it removed the row
ServiceAdd(table, add_resp, service_instance) ==
    IF add_resp = "OK" THEN table \cup {service_instance} ELSE table

ServiceDelete(table, sent, service_instance) ==
    IF \E i \in DOMAIN sent : sent[i].type = "DELETE" THEN table \ {service_instance} ELSE table

\* Broker_GroupSubscribe followed by Broker_GroupUnsubscribe for the same
\* pair; as in the core, the unsubscribe hook is called for the subscription
\* that the subscribe hook accepted
SubscribeThenUnsubscribe(broker_instance, notify_type, path, add_resp, del_resp) ==
    LET group_id == USP_BROKER_IsPathVendorSubscribable(schema, notify_type, path)
        slot == FindUspServiceByGroupId(usp_services, group_id)
        s == Broker_GroupSubscribe(usp_services, count, id_count, broker_instance, group_id,
                                   notify_type, path, add_resp, broker_instance)
        u == IF s.err = "OK"
             THEN Broker_GroupUnsubscribe(s.svcs, s.count, broker_instance, group_id,
                                          notify_type, path, del_resp)
             ELSE [svcs |-> s.svcs, count |-> s.count, out |-> <<>>, err |-> "NOT_CALLED"]
        before == ServiceSubscriptionTable(usp_services[slot])
        arg == [broker_instance |-> broker_instance, notify_type |-> notify_type, path |-> path,
                add_resp |-> add_resp, del_resp |-> del_resp]
    IN
    /\ Running
    /\ group_id # NON_GROUPED /\ hooks[group_id] = "broker" /\ slot # 0
    /\ subscriptions[broker_instance] = NoSubscription
    /\ count + 1 < MaxCount /\ id_count <= MaxIdCount
    /\ usp_services' = u.svcs
    /\ count' = u.count
    /\ id_count' = s.id_count
    /\ out' = s.out \o u.out
    /\ aborted' = (s.err = "ASSERT" \/ u.err = "ASSERT")
    /\ last' = Obs("SubscribeUnsubscribe", usp_services[slot].endpoint_id, arg,
                   [subscribe |-> s.err, unsubscribe |-> u.err, before |-> before,
                    after |-> ServiceDelete(ServiceAdd(before, add_resp, broker_instance),
                                            u.out, broker_instance)])
    /\ UNCHANGED <<schema, hooks, request_table, subscriptions>>

TripSubscribe ==
    \E bi \in 1..MaxSubs : Controller_AddSubscription(bi, "ValueChange", ParamP, "OK", bi)

TripRoundTrip ==
    \E bi \in 1..MaxSubs, add_resp \in {"OK", "INTERNAL_ERROR"}, del_resp \in {"OK", "INTERNAL_ERROR", "NULL"} :
        SubscribeThenUnsubscribe(bi, "ValueChange", ParamP, add_resp, del_resp)

NextTrip == HoldRegister \/ S1GsdmResp \/ TripSubscribe \/ TripRoundTrip \/ S1Disconnect

SpecTrip == Init /\ [][NextTrip]_vars

C24_Step ==
    LET slot == FindUspServiceByEndpoint(usp_services, last'.endpoint) IN
    (last'.op = "SubscribeUnsubscribe" /\ last'.ret.unsubscribe # "NOT_CALLED")
    => /\ usp_services'[slot].subs_map = usp_services[slot].subs_map
       /\ last'.ret.after = last'.ret.before

-----------------------------------------------------------------------------
(* GetSupportedDM responses that are expected, duplicated, late or sent by *)
(* an endpoint that is no Service                                          *)

GsdmMsgIds == { <<"BROKER", n>> : n \in 1..3 }

ExpectRegister ==
    USP_BROKER_HandleRegister("S1", MtpUdsController, ReqMsgId, TRUE, TRUE, <<PathA>>, TRUE)

ExpectGsdmResp ==
    \E e \in Endpoints, msg_id \in GsdmMsgIds, wellformed \in BOOLEAN :
        USP_BROKER_HandleGetSupportedDMResp(e, msg_id, wellformed, GsdmA, GetRespEmpty, "OK")

ExpectDeregister ==
    USP_BROKER_HandleDeRegister("S1", MtpUdsController, ReqMsgId, TRUE, <<AllPaths>>, "OK")

NextExpect == ExpectRegister \/ ExpectGsdmResp \/ ExpectDeregister \/ S1Disconnect

SpecExpect == Init /\ [][NextExpect]_vars

\* The GetSupportedDM response that the last handler served was processed
GsdmRespProcessed == last'.op = "GetSupportedDMResp" /\ last'.ret = "OK"

GsdmRespDropped == last'.op = "GetSupportedDMResp" /\ last'.ret # "OK"

\* Message ids of pending GetSupportedDM requests are ids the Broker has made
C25_PendingIdsMade ==
    \A i \in LiveSlots(usp_services) :
        usp_services[i].gsdm_msg_id # NoMsgId => usp_services[i].gsdm_msg_id[2] <= count

C25_Step ==
    LET slot == FindUspServiceByEndpoint(usp_services, last'.endpoint)
        after == FindUspServiceByEndpoint(usp_services', last'.endpoint)
        us == usp_services[slot]
    IN  /\ GsdmRespProcessed =>
              /\ last'.arg.wellformed
              /\ slot # 0 /\ slot \in LiveSlots(usp_services)
              /\ us.gsdm_msg_id # NoMsgId
              /\ us.gsdm_msg_id = last'.arg.msg_id
              /\ usp_services'[slot].gsdm_msg_id = NoMsgId
        /\ GsdmRespDropped =>
              /\ out' = <<>>
              /\ UNCHANGED <<usp_services, schema, hooks, count, id_count, request_table,
                             subscriptions, aborted>>
        \* a response is dropped when it follows the response that was
        \* processed for the same message id
        /\ (/\ last.op = "GetSupportedDMResp" /\ last.ret = "OK"
            /\ last'.op = "GetSupportedDMResp"
            /\ last'.endpoint = last.endpoint /\ last'.arg.msg_id = last.arg.msg_id)
           => last'.ret # "OK"
        \* the GetSupportedDM of a Register supersedes the one that was pending:
        \* its message id is a new one
        /\ (last'.op = "Register" /\ GsdmSent # {})
           => /\ usp_services'[after].gsdm_msg_id[2] > count
              /\ slot # 0 => usp_services'[after].gsdm_msg_id # us.gsdm_msg_id
        /\ C25_PendingIdsMade

\* C25: a GetSupportedDMResp is processed only if its sender is a live
\* Service with a pending gsdm_msg_id equal to the msg_id of the response;
\* otherwise the handler changes nothing and sends nothing. Accepting a
\* response clears gsdm_msg_id, so a duplicate, and a response to a
\* GetSupportedDM that a later Register superseded, are dropped
C25_OnlyExpectedGsdmResp == [][C25_Step]_vars

\* A response to the GetSupportedDM of an earlier Register was dropped while
\* the GetSupportedDM of a later Register was pending
C25_Witness ==
    LET slot == FindUspServiceByEndpoint(usp_services, "S1") IN
    /\ last.op = "GetSupportedDMResp"
    /\ last.endpoint = "S1"
    /\ last.arg.wellformed
    /\ last.ret = "IGNORED"
    /\ slot # 0
    /\ usp_services[slot].gsdm_msg_id # NoMsgId
    /\ last.arg.msg_id[2] < usp_services[slot].gsdm_msg_id[2]

\* A response was processed
C25_WitnessProcessed ==
    /\ last.op = "GetSupportedDMResp"
    /\ last.ret = "OK"


-----------------------------------------------------------------------------
(* Answers of a Service to the Operate request of an asynchronous command   *)

OperateResponses ==
    {"NULL", "REQ_OBJ_PATH", "OUTPUT_ARGS", "CMD_FAILURE", "CMD_FAILURE_0", "NO_RESULT"}

AnswerSubscribe ==
    \E bi \in 1..MaxSubs : Controller_AddSubscription(bi, "OperationComplete", PathA, "OK", bi)

AnswerOperate ==
    \E instance \in 1..MaxRequests, command_key \in {"k1", "k2"}, oper_resp \in OperateResponses :
        Controller_AsyncOperate(instance, CmdA, command_key, oper_resp)

NextAnswer == HoldRegister \/ S1GsdmResp \/ AnswerSubscribe \/ AnswerOperate \/ S1Disconnect

SpecAnswer == Init /\ [][NextAnswer]_vars

\* The Operate request of the last handler was sent to the Service
OperateSent == last'.op = "AsyncOperate" /\ \E i \in DOMAIN out' : out'[i].type = "OPERATE"

\* The Service's req_map holds the entry of the command that the step started
EntryKept(slot) ==
    \E i \in DOMAIN usp_services'[slot].req_map :
        usp_services'[slot].req_map[i] = [request_instance |-> last'.arg.instance,
                                          path |-> last'.arg.path,
                                          command_key |-> last'.arg.command_key]

C26_Step ==
    LET slot == FindUspServiceByEndpoint(usp_services, out'[1].to)
        resp == last'.arg.oper_resp
        row == request_table'[last'.arg.instance]
    IN  OperateSent =>
           /\ resp = "REQ_OBJ_PATH" =>
                 /\ last'.ret.err = "OK" /\ EntryKept(slot) /\ row.status = "Active"
           /\ resp = "OUTPUT_ARGS" =>
                 /\ last'.ret.err = "OK" /\ last'.ret.is_complete
                 /\ usp_services'[slot].req_map = usp_services[slot].req_map
                 /\ row = NoRequest
           /\ resp \in {"NULL", "CMD_FAILURE", "CMD_FAILURE_0"} =>
                 /\ last'.ret.err # "OK"
                 /\ usp_services'[slot].req_map = usp_services[slot].req_map
                 /\ row = NoRequest

\* C26: when Broker_AsyncOperate has sent the Operate, the ReqMapEntry remains
\* and the Request row is Active if the response carried a req_obj_path; the
\* entry is removed and the completion signalled if the response carried
\* output arguments; the entry is removed and the error returned if the
\* Operate failed or timed out
C26_OperateOutcomes == [][C26_Step]_vars


-----------------------------------------------------------------------------
(* Uniqueness of the commands in progress                                  *)

\* No two entries of the req_map of one Service have the same path and
\* command key
ReqMapUnique(svcs) ==
    \A slot \in Slots : \A i, j \in DOMAIN svcs[slot].req_map :
        (/\ svcs[slot].req_map[i].path = svcs[slot].req_map[j].path
         /\ svcs[slot].req_map[i].command_key = svcs[slot].req_map[j].command_key) => i = j

\* The Service that owns the command of the last handler has an entry for the
\* path and command key of the request
InProgress(svcs) ==
    \E slot \in Slots : \E i \in DOMAIN svcs[slot].req_map :
        /\ svcs[slot].group_id = schema[DM_PRIV_GetNodeFromPath(schema, last'.arg.path)].group_id
        /\ svcs[slot].req_map[i].path = last'.arg.path
        /\ svcs[slot].req_map[i].command_key = last'.arg.command_key

C27_Step ==
    /\ ReqMapUnique(usp_services) /\ ReqMapUnique(usp_services')
    /\ (last'.op = "AsyncOperate" /\ InProgress(usp_services))
       => /\ last'.ret.err = "REQUEST_DENIED"
          /\ out' = <<>>
          /\ UNCHANGED <<usp_services, request_table>>

\* C27: no two entries of a Service's req_map have the same path and command
\* key; an asynchronous Operate whose path and command key equal those of an
\* entry is refused and leaves the req_map as it was
C27_UniqueCommands == [][C27_Step]_vars

\* An Operate was refused for a command in progress with the same command key
C27_Witness ==
    /\ last.op = "AsyncOperate"
    /\ last.ret.err = "REQUEST_DENIED"
    /\ \E slot \in Slots : \E i \in DOMAIN usp_services[slot].req_map :
          /\ usp_services[slot].req_map[i].path = last.arg.path
          /\ usp_services[slot].req_map[i].command_key = last.arg.command_key
          /\ usp_services[slot].req_map[i].request_instance # last.arg.instance


-----------------------------------------------------------------------------
(* USP_ASSERT                                                              *)

\* C28: no sequence of connect, disconnect, Register, Deregister,
\* GetSupportedDMResp, Notify and passthru messages reaches a USP_ASSERT that
\* fails
C28_NoFailingAssert == ~aborted


-----------------------------------------------------------------------------
(* Three endpoints compete for the slots of the Service table; the row of  *)
(* Device.USPServices.USPService. cannot always be created                 *)

AddEndpoints == {"S1", "S2", "S3"}

AddConnect ==
    \E e \in AddEndpoints, inform_ok \in BOOLEAN :
        USP_BROKER_AddUspService(e, MtpUdsController, inform_ok)

AddRegister ==
    \E e \in AddEndpoints, inform_ok \in BOOLEAN :
        /\ count < MaxRegCount
        /\ USP_BROKER_HandleRegister(e, MtpUdsController, ReqMsgId, TRUE, TRUE, <<PathA>>, inform_ok)

AddDisconnect ==
    \E e \in AddEndpoints : USP_BROKER_HandleUspServiceDisconnect(e, "BrokersController")

NextAdd == AddConnect \/ AddRegister \/ AddDisconnect

SpecAdd == Init /\ [][NextAdd]_vars

\* The last handler had to add its sender to the Service table
AddingService ==
    /\ last'.op \in {"AddUspService", "Register"}
    /\ last'.op = "Register" => last'.arg.wellformed
    /\ FindUspServiceByEndpoint(usp_services, last'.endpoint) = 0

\* The table is full, no group id is free, or the row of the data model
\* cannot be created
AddingFails ==
    \/ FindUnusedUspService(usp_services) = 0
    \/ DATA_MODEL_FindUnusedGroupId(hooks) = INVALID
    \/ ~last'.arg.inform_ok

C29_Step ==
    /\ Cardinality(LiveSlots(usp_services')) <= MAX_USP_SERVICES
    /\ (AddingService /\ AddingFails)
       => /\ last'.ret # "OK"
          /\ usp_services' = usp_services
          /\ { g \in DOMAIN hooks' : hooks'[g] # "none" } = GroupsInUse

\* C29: the number of live Service slots never exceeds MAX_USP_SERVICES, and
\* whenever adding a Service fails (table full, no free group id, or the row
\* of the data model could not be created) in USP_BROKER_AddUspService or
\* USP_BROKER_HandleRegister, the Service table and the set of group ids in
\* use are the same as before the call
C29_FailedAddChangesNothing == [][C29_Step]_vars


-----------------------------------------------------------------------------
(* Identity of the live Services                                           *)

\* The live Services differ pairwise in instance number, endpoint_id and
\* group_id
DistinctServices(svcs) ==
    \A i, j \in LiveSlots(svcs) :
        i # j => /\ svcs[i].instance # svcs[j].instance
                 /\ svcs[i].endpoint_id # svcs[j].endpoint_id
                 /\ svcs[i].group_id # svcs[j].group_id

InstancesInUse(svcs) == { svcs[i].instance : i \in LiveSlots(svcs) }

\* The slots of the Services that the step added
NewSlots == LiveSlots(usp_services') \ LiveSlots(usp_services)

C30_Step ==
    /\ DistinctServices(usp_services) /\ DistinctServices(usp_services')
    /\ \A i \in NewSlots :
          /\ usp_services'[i].instance > 0
          /\ usp_services'[i].instance =
                IF InstancesInUse(usp_services) = {} THEN 1
                ELSE Max(InstancesInUse(usp_services)) + 1

\* C30: the live Services have pairwise distinct instance numbers, pairwise
\* distinct endpoint_ids and pairwise distinct group_ids; the instance of a
\* new Service is one more than the largest instance in use (1 when the
\* table is empty)
C30_DistinctIdentities == [][C30_Step]_vars

\* Two live Services, the one added after the Service of instance 1 had gone
C30_Witness ==
    /\ InstancesInUse(usp_services) = {2, 3}
    /\ last.op \in {"AddUspService", "Register"}


-----------------------------------------------------------------------------
(* The Controller of a Service on the Broker's Agent socket                *)

HasConnect ==
    \E e \in Endpoints, mtpc \in ConnectMtps, inform_ok \in BOOLEAN :
        USP_BROKER_AddUspService(e, mtpc, inform_ok)

NextHas == HasConnect \/ LifeRegister \/ LifeDisconnect

SpecHas == Init /\ [][NextHas]_vars

\* The Service is connected to the Broker's Agent socket
OnAgentSocket(us) == us.agent_mtp.protocol = "UDS" /\ us.agent_mtp.path_type = "BrokersAgent"

\* C31: the has_controller of a live Service is true if and only if its
\* agent-direction MTP, the connection on the Broker's Agent socket, is
\* connected, whether a connection or the first Register created the Service
C31_HasControllerIffAgentSocket ==
    \A i \in LiveSlots(usp_services) :
        usp_services[i].has_controller <=> OnAgentSocket(usp_services[i])


-----------------------------------------------------------------------------
(* Reconciling the Subscription table of a Service with the Broker's *)

ParamEndpointID == <<"Device", "USPServices", "USPService", "EndpointID">>

SubsRow(service_instance, subscription_id, enable, notify_type, path) ==
    [service_instance |-> service_instance, subscription_id |-> subscription_id,
     enable |-> enable, notify_type |-> notify_type, path |-> path]

\* Rows a Service reports: one made by a Controller, and rows made by an
\* earlier run of the Broker
RowController == SubsRow(1, <<"CTRL-SUB", 1>>, TRUE, "ValueChange", ParamP)
RowDisabled == SubsRow(2, <<"BROKER-SUB", -1>>, FALSE, "ValueChange", ParamP)
RowP == SubsRow(3, <<"BROKER-SUB", -2>>, TRUE, "ValueChange", ParamP)
RowP2 == SubsRow(4, <<"BROKER-SUB", -3>>, TRUE, "ValueChange", ParamP)
RowR == SubsRow(5, <<"BROKER-SUB", -4>>, TRUE, "ValueChange", ParamR)
RowCore == SubsRow(6, <<"BROKER-SUB", -5>>, TRUE, "ValueChange", ParamEndpointID)
RowUnknownType == SubsRow(7, <<"BROKER-SUB", -6>>, TRUE, "Unknown", ParamP)
\* A second row that carries the ID of RowP
RowPAgain == SubsRow(8, RowP.subscription_id, TRUE, "ValueChange", ParamP)

SyncRowLists ==
    { <<RowController, RowDisabled, RowP>>, <<RowP, RowP2>>, <<RowR, RowCore, RowP>>,
      <<RowUnknownType, RowP2, RowR>>, <<RowP, RowPAgain>> }

SyncRegister ==
    /\ count < MaxRegCount + 2
    /\ \E path \in {PathA, PathX} :
           USP_BROKER_HandleRegister("S1", MtpUdsController, ReqMsgId, TRUE, TRUE, <<path>>, TRUE)

SyncS2Register == count < MaxRegCount /\ S2Register

SyncSubscribe ==
    \E bi \in 1..MaxSubs : Controller_AddSubscription(bi, "ValueChange", ParamP, "OK", bi)

\* The answers of S1 to the Get of its Subscription table: its rows, no
\* answer in time, or an Error message
SyncGetResps ==
    { GetResp("OK", rows) : rows \in SyncRowLists }
        \cup { GetResp("NULL", <<>>), GetResp("MESSAGE_NOT_UNDERSTOOD", <<>>) }

SyncGsdmResp ==
    \E get_resp \in SyncGetResps, add_resp \in {"OK", "NULL"} :
        LET slot == FindUspServiceByEndpoint(usp_services, "S1") IN
        /\ slot # 0
        /\ USP_BROKER_HandleGetSupportedDMResp("S1", usp_services[slot].gsdm_msg_id, TRUE, GsdmA,
                                               get_resp, add_resp)

NextSync == SyncRegister \/ SyncS2Register \/ S2GsdmResp \/ SyncSubscribe \/ SyncGsdmResp

SpecSync == Init /\ [][NextSync]_vars

\* The n-th smallest element of a set of numbers
Nth(S, n) == CHOOSE x \in S : Cardinality({ y \in S : y < x }) = n - 1

\* The step is a GSDM response that was accepted and whose reconcile read the
\* Subscription table of the Service
SyncDone ==
    /\ last'.op = "GetSupportedDMResp" /\ last'.ret = "OK"
    /\ last'.arg.get_resp.err = "OK"

\* The rows of the Service's table that the step asked the Service to delete
SyncDeleted ==
    UNION { SeqToSet(out'[i].body) : i \in { j \in 1..Len(out') : out'[j].type = "DELETE" } }

C32_Step ==
    SyncDone =>
        LET rows == last'.arg.get_resp.rows
            slot == FindUspServiceByEndpoint(usp_services, last'.endpoint)
            g == usp_services[slot].group_id
            before == usp_services[slot].subs_map
            after == usp_services'[slot].subs_map
            Deleted(r) == SubsInstancePath(r.service_instance) \in SyncDeleted
            NewEntries(r) == { after[i] : i \in { j \in (Len(before) + 1)..Len(after) :
                                        /\ after[j].subscription_id = r.subscription_id
                                        /\ after[j].service_instance = r.service_instance } }
            Untouched(r) == ~Deleted(r) /\ NewEntries(r) = {}
            Marker(r) == r.subscription_id[1] = "BROKER-SUB"
            Present(r) == NormTokens(r.path) \in DOMAIN schema'
            Owned(r) == schema'[NormTokens(r.path)].group_id = g
            Mapped(k) ==
                \/ \E i \in DOMAIN before : before[i].subscription_id = rows[k].subscription_id
                \/ \E j \in 1..(k - 1) : /\ rows[j].subscription_id = rows[k].subscription_id
                                          /\ NewEntries(rows[j]) # {}
            Candidate(k) ==
                LET r == rows[k] IN
                /\ Marker(r) /\ r.enable /\ Present(r) /\ Owned(r) /\ ~Mapped(k)
            Free(r) == { b \in DOMAIN subscriptions :
                            /\ subscriptions[b].notify_type = r.notify_type
                            /\ subscriptions[b].path = r.path
                            /\ subscriptions[b].group_id = NON_GROUPED }
            Earlier(k) == Cardinality({ j \in 1..(k - 1) :
                              /\ Candidate(j)
                              /\ rows[j].notify_type = rows[k].notify_type
                              /\ rows[j].path = rows[k].path })
        IN  /\ \A k \in DOMAIN rows :
                LET r == rows[k] IN
                r.notify_type \in {"ValueChange", "ObjectCreation", "ObjectDeletion",
                                   "OperationComplete", "Event"} =>
                    /\ ~Marker(r) => Untouched(r)
                    /\ Marker(r) /\ ~r.enable => Deleted(r) /\ NewEntries(r) = {}
                    /\ Marker(r) /\ r.enable /\ ~Present(r) => Untouched(r)
                    /\ Marker(r) /\ r.enable /\ Present(r) /\ ~Owned(r) =>
                           Deleted(r) /\ NewEntries(r) = {}
                    /\ Marker(r) /\ r.enable /\ Present(r) /\ Owned(r) /\ Mapped(k) => Untouched(r)
                    /\ Candidate(k) =>
                           IF Earlier(k) < Cardinality(Free(r))
                           THEN /\ ~Deleted(r)
                                /\ NewEntries(r) =
                                       { [service_instance |-> r.service_instance, path |-> r.path,
                                          subscription_id |-> r.subscription_id,
                                          broker_instance |-> Nth(Free(r), Earlier(k) + 1)] }
                           ELSE Deleted(r) /\ NewEntries(r) = {}
            /\ \A i, j \in DOMAIN after :
                   /\ after[i].broker_instance = after[j].broker_instance
                   /\ after[i].path = after[j].path
                   => i = j

C32_WitnessForeign ==
    /\ last.op = "GetSupportedDMResp" /\ last.ret = "OK" /\ last.endpoint = "S1"
    /\ last.arg.get_resp.rows = <<RowR, RowCore, RowP>>
    /\ NormTokens(ParamR) \in DOMAIN schema
    /\ \E k \in DOMAIN out :
           /\ out[k].type = "DELETE"
           /\ SubsInstancePath(RowR.service_instance) \in SeqToSet(out[k].body)

\* A row whose ID the subs_map already held was left alone
C32_WitnessMapped ==
    /\ last.op = "GetSupportedDMResp" /\ last.ret = "OK"
    /\ last.arg.get_resp.rows = <<RowP, RowPAgain>>
    /\ \A k \in DOMAIN out : out[k].type # "DELETE"
    /\ \E i \in LiveSlots(usp_services) :
           /\ Cardinality({ k \in DOMAIN usp_services[i].subs_map :
                  usp_services[i].subs_map[k].subscription_id = RowP.subscription_id }) = 1
           /\ Len(usp_services[i].subs_map) = 2

\* The Broker's subscriptions that are on a path of the Service's group and
\* that the step left neither paired by a SubsMapEntry nor with an Add sent
\* to the Service
NotStarted(slot) ==
    { b \in DOMAIN subscriptions' :
        /\ subscriptions'[b].notify_type # "None"
        /\ USP_BROKER_IsPathVendorSubscribable(schema', subscriptions'[b].notify_type,
                                               subscriptions'[b].path) = usp_services'[slot].group_id
        /\ ~\E k \in DOMAIN usp_services'[slot].subs_map :
               /\ usp_services'[slot].subs_map[k].broker_instance = b
               /\ usp_services'[slot].subs_map[k].path = subscriptions'[b].path
        /\ ~\E k \in DOMAIN out' :
               /\ out'[k].type = "ADD" /\ out'[k].to = usp_services'[slot].endpoint_id
               /\ out'[k].body.path = subscriptions'[b].path
               /\ out'[k].body.notify_type = subscriptions'[b].notify_type }

GsdmRespAccepted == last'.op = "GetSupportedDMResp" /\ last'.ret = "OK"

C33_Step ==
    GsdmRespAccepted =>
        NotStarted(FindUspServiceByEndpoint(usp_services', last'.endpoint)) = {}

C33_AnsweredStep ==
    GsdmRespAccepted /\ last'.arg.get_resp.err # "NULL" =>
        NotStarted(FindUspServiceByEndpoint(usp_services', last'.endpoint)) = {}

C33_WitnessPaired ==
    /\ last.op = "GetSupportedDMResp" /\ last.ret = "OK"
    /\ last.arg.get_resp.err = "OK"
    /\ \E k \in DOMAIN out : out[k].type = "ADD" /\ out[k].body.path = ParamP
    /\ \E i \in LiveSlots(usp_services) :
           \E k \in DOMAIN usp_services[i].subs_map :
               usp_services[i].subs_map[k].subscription_id = RowP.subscription_id

-----------------------------------------------------------------------------
(* A disconnect handled while a vendor hook awaits the response of the Service *)

\* USP_BROKER_HandleUspServiceDisconnect(endpoint_id, kUdsPathType_BrokersController)
\* handled by the loop while DM_EXEC_SendRequestAndWaitForResponse waits:
\* [svcs, schema, hooks, request_table, subscriptions]
DisconnectDuringWait(svcs, sch, hk, rt, subs, slot) ==
    LET us == svcs[slot]
        d == HandleUspServiceAgentDisconnect([us EXCEPT !.controller_mtp = MtpNone],
                                             sch, rt, subs, FAIL_USP_COMMANDS_IN_PROGRESS)
        both_down == d.us.agent_mtp.protocol = "None"
    IN  [svcs |-> [svcs EXCEPT ![slot] = IF both_down THEN FreeUspService(d.us) ELSE d.us],
         schema |-> d.schema,
         hooks |-> IF both_down THEN [hk EXCEPT ![us.group_id] = "none"] ELSE hk,
         request_table |-> d.request_table,
         subscriptions |-> d.subscriptions]

\* What DLLIST_Unlink and USP_FREE do with an entry that was unlinked and
\* freed before: the heap is left as it is, or the process is stopped
DanglingOutcomes == {"unnoticed", "abort"}

\* Broker_AsyncOperate, with the Service's controller direction disconnecting
\* after the Operate request was sent: the wait returns NULL and the hook
\* calls ReqMap_Remove with the rmap it added before the wait
Controller_AsyncOperateDisconnected(instance, path, command_key, ub) ==
    LET node == DM_PRIV_GetNodeFromPath(schema, path)
        group_id == schema[node].group_id
        slot == FindUspServiceByGroupId(usp_services, group_id)
        us == usp_services[slot]
        added == [usp_services EXCEPT ![slot].req_map = ReqMap_Add(@, instance, path, command_key)]
        sent == SendRequest(us, count, "OPERATE", [path |-> path, command_key |-> command_key])
        row == [status |-> "Requested", path |-> path, command_key |-> command_key]
        d == DisconnectDuringWait(added, schema, hooks,
                                  [request_table EXCEPT ![instance] = row], subscriptions, slot)
        index == ReqMap_Find(d.svcs[slot].req_map, path, command_key)
        arg == [instance |-> instance, path |-> path, command_key |-> command_key]
    IN
    /\ Running
    /\ count < MaxCount
    /\ request_table[instance] = NoRequest
    /\ node # <<>>
    /\ schema[node].type = "AsyncOperation"
    /\ slot # 0
    /\ SubsMap_FindByPath(us.subs_map, path) # 0
    /\ ReqMap_Find(us.req_map, path, command_key) = 0
    /\ us.controller_mtp.protocol # "None"
    /\ usp_services' = IF index # 0 THEN [d.svcs EXCEPT ![slot].req_map = DLLIST_Unlink(@, index)]
                        ELSE d.svcs
    /\ schema' = d.schema
    /\ hooks' = d.hooks
    /\ subscriptions' = d.subscriptions
    /\ request_table' = [d.request_table EXCEPT ![instance] = NoRequest]
    /\ count' = sent.count
    /\ out' = sent.out
    /\ aborted' = (index = 0 /\ ub = "abort")
    /\ last' = Obs("AsyncOperateDisconnected", us.endpoint_id, arg,
                   [err |-> "INTERNAL_ERROR", entry_in_map |-> index # 0])
    /\ UNCHANGED id_count

\* Broker_GroupUnsubscribe, with the Service's controller direction
\* disconnecting after the Delete request was sent: the wait returns NULL and
\* the hook calls SubsMap_Remove with the smap it found before the wait
Controller_DeleteSubscriptionDisconnected(broker_instance, ub) ==
    LET row == subscriptions[broker_instance]
        slot == FindUspServiceByGroupId(usp_services, row.group_id)
        us == usp_services[slot]
        found == SubsMap_FindByBrokerInstanceAndPath(us.subs_map, broker_instance, row.path)
        sent == SendRequest(us, count, "DELETE",
                    << <<"Device", "LocalAgent", "Subscription", us.subs_map[found].service_instance>> >>)
        d == DisconnectDuringWait(usp_services, schema, hooks, request_table, subscriptions, slot)
        index == SubsMap_FindByBrokerInstanceAndPath(d.svcs[slot].subs_map, broker_instance, row.path)
        arg == [broker_instance |-> broker_instance]
    IN
    /\ Running
    /\ count < MaxCount
    /\ row # NoSubscription
    /\ row.group_id # NON_GROUPED
    /\ slot # 0
    /\ found # 0
    /\ us.controller_mtp.protocol # "None"
    /\ usp_services' = IF index # 0 THEN [d.svcs EXCEPT ![slot].subs_map = DLLIST_Unlink(@, index)]
                        ELSE d.svcs
    /\ schema' = d.schema
    /\ hooks' = d.hooks
    /\ subscriptions' = [d.subscriptions EXCEPT ![broker_instance] = NoSubscription]
    /\ request_table' = d.request_table
    /\ count' = sent.count
    /\ out' = sent.out
    /\ aborted' = (index = 0 /\ ub = "abort")
    /\ last' = Obs("UnsubscribeDisconnected", us.endpoint_id, arg,
                   [err |-> "INTERNAL_ERROR", entry_in_map |-> index # 0])
    /\ UNCHANGED id_count

SuspendOperate ==
    \E instance \in 1..MaxRequests, command_key \in {"k1", "k2"}, ub \in DanglingOutcomes :
        Controller_AsyncOperateDisconnected(instance, CmdA, command_key, ub)

SuspendUnsubscribe ==
    \E bi \in 1..MaxSubs, ub \in DanglingOutcomes : Controller_DeleteSubscriptionDisconnected(bi, ub)

SuspendDelete ==
    \E bi \in 1..MaxSubs : Controller_DeleteSubscription(bi, "OK")

NextSuspend ==
    \/ HoldRegister \/ S1GsdmResp \/ AgentConnect \/ AnswerSubscribe \/ AnswerOperate
    \/ SuspendDelete \/ SuspendOperate \/ SuspendUnsubscribe

SpecSuspend == Init /\ [][NextSuspend]_vars

\* The hook resumed after the disconnect of the Service it was waiting for
HookResumed == last'.op \in {"AsyncOperateDisconnected", "UnsubscribeDisconnected"}

C34_Step == HookResumed => last'.ret.entry_in_map

\* C34: when the controller direction of a Service disconnects while a vendor
\* hook of that Service awaits a response, the removal that the hook makes
\* after it resumes acts on an entry that is still in the map: the
\* ReqMapEntry of Broker_AsyncOperate and the SubsMapEntry of
\* Broker_GroupUnsubscribe are removed exactly once
C34_EntryRemovedOnce == [][C34_Step]_vars

-----------------------------------------------------------------------------
(* The nodes a Service owns and the paths it registered *)

\* Node k of the schema is, or lies under, a path the Service registered
UnderRegisteredPath(k, us) ==
    \E i \in DOMAIN us.registered_paths : IsPrefix(NormTokens(us.registered_paths[i]), k)

\* C35: every node of the schema that is tagged with the group id of a
\* Service lies under one of the registered_paths of that Service; a GSDM
\* response adds no object, parameter, event or command outside of them
C35_GroupNodesUnderRegisteredPaths ==
    \A k \in DOMAIN schema :
        schema[k].group_id # NON_GROUPED =>
            \E i \in LiveSlots(usp_services) :
                /\ usp_services[i].group_id = schema[k].group_id
                /\ UnderRegisteredPath(k, usp_services[i])

-----------------------------------------------------------------------------
(* A Get of an object and the parameters directly below it *)

\* The parameters of the schema that are direct children of node
ChildParams(sch, node) ==
    { n \in DOMAIN sch :
        /\ IsPrefix(node, n) /\ Len(n) = Len(node) + 1
        /\ sch[n].type \in {"VendorParam_ReadOnly", "VendorParam_ReadWrite", "Param_NumEntries"} }

\* The paths of the Get that name an object with a child parameter the role
\* may not get
PathsWithForbiddenChild(sch, usp, combined_role) ==
    { i \in 1..Len(usp.body.paths) :
        LET node == DM_PRIV_GetNodeFromPath(sch, usp.body.paths[i]) IN
        /\ node # <<>>
        /\ sch[node].type \in {"Object_SingleInstance", "Object_MultiInstance"}
        /\ \E n \in ChildParams(sch, node) : ~HoldsOn(n, "GET", combined_role) }

C36_Step ==
    (/\ last'.op = "Passthru"
     /\ last'.arg.usp.msg_type = "GET" /\ last'.arg.usp.wellformed
     /\ PathsWithForbiddenChild(schema, last'.arg.usp, last'.arg.combined_role) # {})
    => ~last'.ret.handled

\* C36: a passthru Get of an object is declined whenever the role of the
\* originator lacks the get permission on a parameter that is a direct child
\* of the object, for every max_depth (also for max_depth = 1)
C36_GetDeclinedOnForbiddenChild == [][C36_Step]_vars

-----------------------------------------------------------------------------
(* A request that is not passed through *)

\* The step is a Get, Set, Add or Delete that USP_BROKER_AttemptPassthru
\* left to the normal handlers
PassthruDeclined ==
    /\ last'.op = "Passthru" /\ ~last'.ret.handled
    /\ last'.arg.usp.msg_type \in {"GET", "SET", "ADD", "DELETE"}

C37_Step ==
    PassthruDeclined =>
        /\ last'.ret.msg_id = last'.arg.usp.msg_id
        /\ \A i \in DOMAIN usp_services' : usp_services'[i].msg_map = usp_services[i].msg_map

\* C37: when USP_BROKER_AttemptPassthru returns false for a Get, Set, Add or
\* Delete, the message handed on to the normal handlers carries the msg_id
\* the originator gave it and no MsgMapEntry was added, also when the
\* forwarding failed after the request was found eligible
C37_DeclinedMessageUnchanged == [][C37_Step]_vars


-----------------------------------------------------------------------------
(* A path is registered again after the Service that owned it disconnected  *)

AgainRegister ==
    \E e \in Endpoints, mtpc \in ConnectMtps :
        /\ count < MaxRegCount
        /\ ConnectedOn(e, mtpc)
        /\ USP_BROKER_HandleRegister(e, mtpc, ReqMsgId, TRUE, TRUE, <<PathA>>, TRUE)

AgainGsdmResp ==
    \E e \in Endpoints, msg_id \in GsdmMsgIds :
        USP_BROKER_HandleGetSupportedDMResp(e, msg_id, TRUE, GsdmA, GetRespEmpty, "OK")

NextAgain == LifeConnect \/ AgainRegister \/ AgainGsdmResp \/ LifeDisconnect

SpecAgain == Init /\ [][NextAgain]_vars

\* The live Services that have PathA in their registered_paths
OwnersOfPathA(svcs) ==
    { i \in 1..MAX_USP_SERVICES :
        svcs[i].instance # INVALID /\ STR_VECTOR_Find(svcs[i].registered_paths, PathA) # INVALID }

\* A Register of PathA that arrives on the Broker's Controller socket while no
\* live Service owns the path is accepted and followed by a GetSupportedDM
\* with a new message id
C38_RegisterStep ==
    LET slot == FindUspServiceByEndpoint(usp_services, last'.endpoint) IN
    (/\ last'.op = "Register"
     /\ last'.arg.mtpc = MtpUdsController
     /\ OwnersOfPathA(usp_services) = {})
    => /\ last'.ret = "OK"
       /\ OwnersOfPathA(usp_services') = {slot}
       /\ Len(out') = 2
       /\ out'[1].type = "REGISTER_RESP"
       /\ out'[2].type = "GET_SUPPORTED_DM"
       /\ out'[2].to = last'.endpoint
       /\ usp_services'[slot].gsdm_msg_id = out'[2].msg_id
       /\ usp_services'[slot].gsdm_msg_id # usp_services[slot].gsdm_msg_id

\* A GetSupportedDM response is processed only for a Service that has
\* registered paths
C38_StaleStep ==
    LET slot == FindUspServiceByEndpoint(usp_services, last'.endpoint) IN
    (last'.op = "GetSupportedDMResp" /\ last'.ret = "OK")
    => usp_services[slot].registered_paths # <<>>

\* C38: after a controller-direction disconnect of a Service the paths it
\* owned can be registered again: a Register of such a path that arrives on
\* the Broker's Controller socket is accepted and followed by a GetSupportedDM
\* with a new message id, and no GetSupportedDM response is processed for a
\* Service whose registration the disconnect ended (its gsdm_msg_id does not
\* outlive its registered_paths)
C38_ReRegisterAfterDisconnect == [][C38_RegisterStep /\ C38_StaleStep]_vars


-----------------------------------------------------------------------------
(* OperationComplete notifications that match a command in progress, and    *)
(* ones that match none                                                     *)

OnceOperate ==
    \E instance \in 1..MaxRequests, command_key \in {"k1", "k2"} :
        Controller_AsyncOperate(instance, CmdA, command_key, "REQ_OBJ_PATH")

\* The OperationComplete notifications a Service sends: of the command of
\* Device.A. or of another one, with either command key
OperCompletes ==
    { [notification_case |-> "OperationComplete", obj_path |-> PathA,
       command_name |-> command_name, command_key |-> command_key] :
          command_name \in {"Reboot()", "Reset()"}, command_key \in {"k1", "k2"} }

OnceComplete ==
    \E e \in Endpoints, subscription_id \in SubscriptionIds, notification \in OperCompletes :
        USP_BROKER_HandleNotification(e, MtpUdsController, ReqMsgId, TRUE, FALSE,
                                      subscription_id, notification)

NextOnce == HoldRegister \/ S1GsdmResp \/ AnswerSubscribe \/ OnceOperate \/ OnceComplete

SpecOnce == Init /\ [][NextOnce]_vars

\* The entries of the request map of svcs[slot] that an OperationComplete
\* notification names: those of the command obj_path + command_name with its
\* command key
MatchingEntries(svcs, slot, notification) ==
    IF slot = 0 THEN {}
    ELSE { i \in 1..Len(svcs[slot].req_map) :
             /\ svcs[slot].req_map[i].path =
                   SubSeq(notification.obj_path, 1, Len(notification.obj_path) - 1)
                      \o <<notification.command_name>>
             /\ svcs[slot].req_map[i].command_key = notification.command_key }

ActiveRows(rt) == { i \in DOMAIN rt : rt[i] # NoRequest }

C39_Step ==
    LET slot == FindUspServiceByEndpoint(usp_services, last'.endpoint)
        notification == last'.arg.notification
    IN  (last'.op = "Notify" /\ notification.notification_case = "OperationComplete")
        => IF MatchingEntries(usp_services, slot, notification) = {}
           THEN /\ request_table' = request_table
                /\ \A i \in Slots : usp_services'[i].req_map = usp_services[i].req_map
           ELSE /\ Cardinality(ActiveRows(request_table) \ ActiveRows(request_table')) <= 1
                /\ \A i \in Slots : i # slot => usp_services'[i].req_map = usp_services[i].req_map
                /\ Len(usp_services'[slot].req_map) >= Len(usp_services[slot].req_map) - 1

\* C39: the row of the Request table of an asynchronous command is deleted at
\* most once: an OperationComplete notification whose command (obj_path +
\* command_name) and command_key match no entry of the request map of the
\* Service that sent it, such as a duplicate of one handled before, deletes
\* no row of the Request table and removes no entry of any request map; one
\* that matches deletes at most one row and removes at most one entry
C39_RowDeletedAtMostOnce == [][C39_Step]_vars

\* A notification that matched nothing was routed while another command of the
\* Service was in progress; its row and its entry are still there
C39_Witness ==
    LET slot == FindUspServiceByEndpoint(usp_services, last.endpoint) IN
    /\ last.op = "Notify"
    /\ last.arg.notification.notification_case = "OperationComplete"
    /\ last.ret.err = "OK"
    /\ slot # 0
    /\ MatchingEntries(usp_services, slot, last.arg.notification) = {}
    /\ last.arg.notification.command_name = "Reboot()"
    /\ usp_services[slot].req_map # <<>>
    /\ ActiveRows(request_table) # {}


-----------------------------------------------------------------------------
(* Responses of a Service to the Delete request of the MultiDelete hook     *)

\* TEXT_UTILS_StrDupWithTrailingDot
TEXT_UTILS_StrDupWithTrailingDot(path) ==
    IF path # <<>> /\ path[Len(path)] = "" THEN path ELSE Append(path, "")

RECURSIVE ProcessDeleteResponse_Results(_, _, _, _)
\* The loop of ProcessDeleteResponse over the deleted_obj_results from the
\* C index i upwards; every pass reads deleted_obj_results[0]
ProcessDeleteResponse_Results(results, paths, i, err) ==
    IF i >= Len(results) THEN [err |-> err, failure_index |-> INVALID]
    ELSE LET deleted_obj_result == results[1] IN
         IF STR_VECTOR_Find(paths, deleted_obj_result.requested_path) = INVALID
         THEN [err |-> "INTERNAL_ERROR", failure_index |-> INVALID]
         ELSE IF deleted_obj_result.oper_status = "OPER_FAILURE"
         THEN [err |-> deleted_obj_result.err_code, failure_index |-> i]
         ELSE ProcessDeleteResponse_Results(results, paths, i + 1, "OK")

\* ProcessDeleteResponse: [err, failure_index], failure_index being the C
\* index. resp.kind is "ERROR" when MSG_UTILS_ValidateUspResponse fails with
\* resp.err and names resp.param_errs_path, "NO_BODY" when the delete_resp is
\* missing, "DELETE_RESP" otherwise
ProcessDeleteResponse(resp, paths) ==
    IF resp.kind = "ERROR"
    THEN LET index == STR_VECTOR_Find(paths, resp.param_errs_path)
         IN  [err |-> resp.err,
              failure_index |-> IF index = INVALID THEN INVALID ELSE index - 1]
    ELSE IF resp.kind = "NO_BODY" THEN [err |-> "INTERNAL_ERROR", failure_index |-> INVALID]
    ELSE IF Len(resp.results) # Len(paths)
    THEN [err |-> "INTERNAL_ERROR", failure_index |-> INVALID]
    ELSE ProcessDeleteResponse_Results(resp.results, paths, 0, "OK")

\* Broker_MultiDelete with UspService_DeleteInstances:
\* [count, out, err, failure_index]; resp.kind = "NULL" when the Service does
\* not answer in time. failure_index is "UNSET" where the code leaves the
\* caller's variable as it was
Broker_MultiDelete(svcs, cnt, group_id, allow_partial, paths, resp) ==
    LET slot == FindUspServiceByGroupId(svcs, group_id)
        us == svcs[slot]
        obj_paths == [i \in 1..Len(paths) |-> TEXT_UTILS_StrDupWithTrailingDot(paths[i])]
        sent == SendRequest(us, cnt, "DELETE", [allow_partial |-> allow_partial, obj_paths |-> obj_paths])
        r == ProcessDeleteResponse(resp, obj_paths)
    IN  IF slot = 0
        THEN [count |-> cnt, out |-> <<>>, err |-> "ASSERT", failure_index |-> "UNSET"]
        ELSE IF us.controller_mtp.protocol = "None"
        THEN [count |-> cnt, out |-> <<>>, err |-> "INTERNAL_ERROR", failure_index |-> "UNSET"]
        ELSE IF resp.kind = "NULL"
        THEN [count |-> sent.count, out |-> sent.out, err |-> "INTERNAL_ERROR",
              failure_index |-> "UNSET"]
        ELSE [count |-> sent.count, out |-> sent.out, err |-> r.err,
              failure_index |-> r.failure_index]

\* The core calls the MultiDelete hook of the group of a Service
Controller_MultiDelete(group_id, allow_partial, paths, resp) ==
    LET r == Broker_MultiDelete(usp_services, count, group_id, allow_partial, paths, resp)
    IN
    /\ Running
    /\ count < MaxCount
    /\ hooks[group_id] = "broker"
    /\ count' = r.count
    /\ out' = r.out
    /\ aborted' = (r.err = "ASSERT")
    /\ last' = Obs("MultiDelete", "", [group_id |-> group_id, allow_partial |-> allow_partial,
                                       paths |-> paths, resp |-> resp],
                   [err |-> r.err, failure_index |-> r.failure_index])
    /\ UNCHANGED <<usp_services, schema, hooks, id_count, request_table, subscriptions>>

\* Instances of Device.A.B.{i}. as the core hands them to the hook
ObjB1 == <<"Device", "A", "B", "1">>
ObjB2 == <<"Device", "A", "B", "2">>

DeletePathLists == { <<ObjB1>>, <<ObjB1, ObjB2>>, <<ObjB2, ObjB1, ObjB1>> }

\* The results a Service puts into a Delete response
DeletedObjResults ==
    { [requested_path |-> TEXT_UTILS_StrDupWithTrailingDot(p), oper_status |-> "OPER_SUCCESS",
       err_code |-> "OK"] : p \in {ObjB1, ObjB2, PathC} }
    \cup
    { [requested_path |-> TEXT_UTILS_StrDupWithTrailingDot(p), oper_status |-> "OPER_FAILURE",
       err_code |-> e] : p \in {ObjB1, ObjB2},
                         e \in {"OBJECT_DOES_NOT_EXIST", "REQUEST_DENIED"} }

DeleteResp(results) ==
    [kind |-> "DELETE_RESP", err |-> "OK", param_errs_path |-> <<>>, results |-> results]

MaxResults == 3

DeleteResps ==
    { DeleteResp(results) :
        results \in UNION { [1..n -> DeletedObjResults] : n \in 0..(MaxResults - 1) } }
    \cup
    { DeleteResp(<<a, a, b>>) :
        a \in { r \in DeletedObjResults : r.requested_path = InstanceB1 },
        b \in DeletedObjResults }
    \cup
    { [kind |-> "ERROR", err |-> "OBJECT_DOES_NOT_EXIST", results |-> <<>>,
       param_errs_path |-> TEXT_UTILS_StrDupWithTrailingDot(p)] : p \in {ObjB2, PathC} }
    \cup
    { [kind |-> k, err |-> "OK", param_errs_path |-> <<>>, results |-> <<>>] :
         k \in {"NULL", "NO_BODY"} }

DeleteMulti ==
    \E group_id \in 0..(MAX_VENDOR_PARAM_GROUPS - 1), allow_partial \in BOOLEAN :
        \E paths \in DeletePathLists, resp \in DeleteResps :
            /\ count < MaxRegCount + 3
            /\ Controller_MultiDelete(group_id, allow_partial, paths, resp)

DeleteRegister == count < MaxRegCount /\ S1Register

NextDelete == DeleteRegister \/ S1GsdmResp \/ DeleteMulti \/ S1Disconnect

SpecDelete == Init /\ [][NextDelete]_vars

\* The results of the response that report a failure, by their C index
FailingResults(resp) ==
    { i \in 0..(Len(resp.results) - 1) : resp.results[i + 1].oper_status = "OPER_FAILURE" }

C40_Step ==
    LET resp == last'.arg.resp
        paths == [i \in 1..Len(last'.arg.paths) |->
                     TEXT_UTILS_StrDupWithTrailingDot(last'.arg.paths[i])]
        first == Min(FailingResults(resp))
    IN  (last'.op = "MultiDelete" /\ resp.kind = "DELETE_RESP" /\ out' # <<>>)
        => /\ last'.ret.err = "OK" =>
                \A i \in 1..Len(resp.results) :
                   /\ STR_VECTOR_Find(paths, resp.results[i].requested_path) # INVALID
                   /\ resp.results[i].oper_status = "OPER_SUCCESS"
           /\ (/\ FailingResults(resp) # {}
               /\ Len(resp.results) = Len(paths)
               /\ \A i \in 1..Len(resp.results) :
                     STR_VECTOR_Find(paths, resp.results[i].requested_path) # INVALID)
              => /\ last'.ret.err = resp.results[first + 1].err_code
                 /\ last'.ret.failure_index = first

\* C40: ProcessDeleteResponse returns USP_ERR_OK only if every
\* deleted_obj_result of the response is for a requested path and reports
\* success; when a result reports a failure (the results being as many as the
\* requested paths and each for one of them) it returns the error code of the
\* first failing result with failure_index set to its index, whatever the
\* number of results
C40_DeleteResponseChecked == [][C40_Step]_vars

=============================================================================
